---- MODULE Spec2Model ----
(***************************************************************************)
(* Verification model of the univ-live student front-end:                  *)
(*   - the CBT attempt component (StudentCBTAttempt): scoring, load /      *)
(*     resume discovery, start, navigation, debounced autosave, submit;    *)
(*   - access-code redemption (StudentTestDetails.redeemCode and           *)
(*     StudentTests.handleRedeemCode), run as Firestore transactions;      *)
(*   - the tenant provider, the rankings, messages, review and dashboard   *)
(*     views, each under a harness of its own that keeps its state in st,  *)
(*     ld, mounted and hist.                                               *)
(* Strings are sequences of one-character strings so that trimming,        *)
(* number formatting and substring tests are computed, not assumed.        *)
(***************************************************************************)
EXTENDS Integers, Sequences, FiniteSets, TLC

VARIABLES
    \* ---- StudentCBTAttempt component state (part_002:138-169)
    questions,      \* AttemptQuestion[] (mapped by mapQuestion)
    responses,      \* Record<questionId, AttemptResponse>
    scoreOut,       \* the values computeScore returned, oldest first
    \* ---- the clock read by Date.now(), in milliseconds
    now,
    \* ---- Firestore: educators/{educatorId}/accessCodes and testUnlocks
    codeDocs,       \* access-code id -> document
    unlockDocs,     \* the testUnlocks collection, a set of documents
    \* ---- one entry per open unlock dialog (StudentTestDetails / StudentTests)
    tabs,
    redemptions,    \* history: redeem invocations so far
    consumed,       \* history: <<student, test>> -> usesUsed increments committed
    \* ---- Firestore: the test documents and the attempts collection
    testDocs,       \* [own, shared]: the my_tests and test_series documents
    attemptDocs,    \* attempt id -> document
    \* ---- Firestore: the support_threads collection
    threadDocs,     \* thread id -> document
    \* ---- the browser: localStorage[attemptIdStorageKey] and the component
    cache,          \* <<>> or <<attempt id>>
    mounted,        \* the load effect's `mounted` flag
    st,             \* the component's remaining useState values
    ld,             \* load(): its position and local variables (per effect run)
    \* ---- the attempt in progress
    pendingUpdate,  \* pendingUpdateRef.current: field path -> value
    saveTimer,      \* saveTimerRef's live timeout: <<>> or <<the attempt id it closes over>>
    writes,         \* writes handed to Firestore and not yet acknowledged, oldest first
    starts,         \* handleStart invocations, in call order
    submits,        \* handleSubmit invocations, in call order
    timer,          \* the mounted TimerChip
    hist            \* history: counters read by the properties

scoreVars == <<questions, responses, scoreOut>>

redeemVars == <<codeDocs, unlockDocs, tabs, redemptions, consumed>>

loadVars == <<testDocs, attemptDocs, cache, mounted, st, ld>>

flowVars == <<pendingUpdate, saveTimer, writes, starts, submits, timer, hist>>

vars == <<scoreVars, now, redeemVars, loadVars, flowVars, threadDocs>>

\* The attempt component is not on screen.
NoFlow ==
    /\ pendingUpdate = <<>> /\ saveTimer = <<>> /\ writes = <<>>
    /\ starts = <<>> /\ submits = <<>> /\ timer = <<>> /\ hist = <<>>

(***************************************************************************)
(* JavaScript values                                                       *)
(***************************************************************************)
\* A JavaScript value: a number, a string (a sequence of characters), null or
\* undefined, carried as a record of one shape so that values can be compared.
Num(n) == [t |-> "number", n |-> n, s |-> <<>>]
Str(s) == [t |-> "string", n |-> 0, s |-> s]
Null == [t |-> "null", n |-> 0, s |-> <<>>]
Undefined == [t |-> "undefined", n |-> 0, s |-> <<>>]

\* The empty string.
Empty == <<>>

IsSpace(c) == c = " "

\* String.prototype.trim: strip white space from both ends.
RECURSIVE TrimLeft(_)
TrimLeft(s) ==
    IF s = <<>> THEN <<>>
    ELSE IF IsSpace(Head(s)) THEN TrimLeft(Tail(s)) ELSE s

RECURSIVE TrimRight(_)
TrimRight(s) ==
    IF s = <<>> THEN <<>>
    ELSE IF IsSpace(s[Len(s)]) THEN TrimRight(SubSeq(s, 1, Len(s) - 1)) ELSE s

Trim(s) == TrimRight(TrimLeft(s))

Digit(d) ==
    CASE d = 0 -> "0" [] d = 1 -> "1" [] d = 2 -> "2" [] d = 3 -> "3"
      [] d = 4 -> "4" [] d = 5 -> "5" [] d = 6 -> "6" [] d = 7 -> "7"
      [] d = 8 -> "8" [] d = 9 -> "9"

RECURSIVE NatToStr(_)
NatToStr(n) ==
    IF n < 10 THEN <<Digit(n)>> ELSE NatToStr(n \div 10) \o <<Digit(n % 10)>>

\* String(v): the characters of a JavaScript value.
String(v) ==
    CASE v.t = "number" ->
           IF v.n < 0 THEN <<"-">> \o NatToStr(0 - v.n) ELSE NatToStr(v.n)
      [] v.t = "null" -> <<"n", "u", "l", "l">>
      [] v.t = "undefined" -> <<"u", "n", "d", "e", "f", "i", "n", "e", "d">>
      [] OTHER -> v.s

\* safeNumber (part_002:75-78): Number(v) when finite, else the fallback.
\* Number(undefined) is NaN and Number(null) is 0; stored marks are numbers,
\* null or missing in the model.
safeNumber(v, fallback) ==
    CASE v.t = "number" -> v.n
      [] v.t = "null" -> 0
      [] OTHER -> fallback

(***************************************************************************)
(* Questions                                                               *)
(***************************************************************************)
\* mapQuestion (part_002:86-103): a stored question document -> AttemptQuestion.
mapQuestion(id, data) ==
    LET correctIndex == safeNumber(data.correctOptionIndex, 0)
        positive == safeNumber(data.positiveMarks, 4)
        negative == safeNumber(data.negativeMarks, 1)
    IN  [ id |-> id,
          type |-> IF data.type = "integer" THEN "integer" ELSE "mcq",
          correctAnswer |->
              IF data.type = "integer"
              THEN String(IF data.correctAnswer \in {Null, Undefined}
                          THEN Str(Empty) ELSE data.correctAnswer)
              ELSE String(Num(correctIndex)),
          marks |-> [correct |-> positive, incorrect |-> negative] ]

\* buildInitResponses (part_002:80-84)
InitResponse ==
    [answer |-> Null, markedForReview |-> FALSE, visited |-> FALSE, answered |-> FALSE]

buildInitResponses(qs) ==
    [qid \in {qs[i].id : i \in 1..Len(qs)} |-> InitResponse]

(***************************************************************************)
(* Scoring                                                                 *)
(***************************************************************************)
RECURSIVE Gcd(_, _)
Gcd(a, b) == IF b = 0 THEN a ELSE Gcd(b, a % b)

\* a / b as an exact fraction in lowest terms (b > 0, a >= 0).
Ratio(a, b) == LET g == Gcd(a, b) IN [num |-> a \div g, den |-> b \div g]

Zero == [num |-> 0, den |-> 1]

\* responses[q.id]?.answer
AnswerOf(resp, qid) ==
    IF qid \in DOMAIN resp THEN resp[qid].answer ELSE Undefined

\* ScoreStep with the mcq branch comparing trimmed strings like the integer branch.
ScoreStepTrimsMcq(acc, q, resp) ==
    LET withMax == [acc EXCEPT !.maxScore = @ + safeNumber(Num(q.marks.correct), 0)]
        ans == AnswerOf(resp, q.id)
    IN  IF ans = Null \/ ans = Undefined \/ Trim(String(ans)) = Empty
        THEN [withMax EXCEPT !.unansweredCount = @ + 1]
        ELSE IF Trim(String(ans)) = Trim(q.correctAnswer)
             THEN [withMax EXCEPT !.score = @ + safeNumber(Num(q.marks.correct), 0),
                                  !.correctCount = @ + 1]
             ELSE [withMax EXCEPT !.score = @ - safeNumber(Num(q.marks.incorrect), 0),
                                  !.incorrectCount = @ + 1]

\* One iteration of the for-loop of computeScore (part_002:524-550).
ScoreStep(acc, q, resp) ==
    LET withMax == [acc EXCEPT !.maxScore = @ + safeNumber(Num(q.marks.correct), 0)]
        ans == AnswerOf(resp, q.id)
    IN  IF ans = Null \/ ans = Undefined \/ Trim(String(ans)) = Empty
        THEN [withMax EXCEPT !.unansweredCount = @ + 1]
        ELSE IF q.type = "integer"
        THEN IF Trim(String(ans)) = Trim(q.correctAnswer)
             THEN [withMax EXCEPT !.score = @ + safeNumber(Num(q.marks.correct), 0),
                                  !.correctCount = @ + 1]
             ELSE [withMax EXCEPT !.score = @ - safeNumber(Num(q.marks.incorrect), 0),
                                  !.incorrectCount = @ + 1]
        ELSE IF String(ans) = q.correctAnswer
             THEN [withMax EXCEPT !.score = @ + safeNumber(Num(q.marks.correct), 0),
                                  !.correctCount = @ + 1]
             ELSE [withMax EXCEPT !.score = @ - safeNumber(Num(q.marks.incorrect), 0),
                                  !.incorrectCount = @ + 1]

RECURSIVE ScoreLoop(_, _, _, _)
ScoreLoop(acc, qs, i, resp) ==
    IF i > Len(qs) THEN acc
    ELSE ScoreLoop(ScoreStep(acc, qs[i], resp), qs, i + 1, resp)

\* Accuracy over every question, the unanswered ones included.
AccuracyOverAllQuestions(correctCount, incorrectCount) ==
    Ratio(correctCount, Len(questions))

\* The accuracy computed at part_002:552-553.
Accuracy(correctCount, incorrectCount) ==
    LET attempted == correctCount + incorrectCount
    IN  IF attempted > 0 THEN Ratio(correctCount, attempted) ELSE Zero

\* computeScore (part_002:517-556) over the component's questions and responses.
computeScoreOf(qs, resp) ==
    LET tot == ScoreLoop([score |-> 0, maxScore |-> 0, correctCount |-> 0,
                          incorrectCount |-> 0, unansweredCount |-> 0], qs, 1, resp)
    IN  [ score |-> tot.score, maxScore |-> tot.maxScore,
          correctCount |-> tot.correctCount, incorrectCount |-> tot.incorrectCount,
          unansweredCount |-> tot.unansweredCount,
          accuracy |-> Accuracy(tot.correctCount, tot.incorrectCount) ]

computeScore == computeScoreOf(questions, responses)

(***************************************************************************)
(* Scoring harness: question documents and stored answers from bounded     *)
(* sets, computeScore applied to them.                                     *)
(***************************************************************************)
MaxQuestions == 2

QuestionIds == {"q1", "q2", "q3", "q4"}

\* Stored question documents (educators/.../questions/<id>); the last one
\* stores the penalty with its sign, as StudentTestDetails.tsx:172 reads it.
QuestionDocs ==
    { [type |-> "mcq", correctOptionIndex |-> Num(1), correctAnswer |-> Undefined,
       positiveMarks |-> Num(4), negativeMarks |-> Num(1)],
      [type |-> "single", correctOptionIndex |-> Undefined, correctAnswer |-> Undefined,
       positiveMarks |-> Undefined, negativeMarks |-> Undefined],
      [type |-> "integer", correctOptionIndex |-> Undefined, correctAnswer |-> Num(1),
       positiveMarks |-> Num(3), negativeMarks |-> Num(0)],
      [type |-> "integer", correctOptionIndex |-> Undefined,
       correctAnswer |-> Str(<<" ", "1">>),
       positiveMarks |-> Num(2), negativeMarks |-> Null],
      [type |-> "integer", correctOptionIndex |-> Undefined, correctAnswer |-> Null,
       positiveMarks |-> Num(5), negativeMarks |-> Num(2)],
      [type |-> "mcq", correctOptionIndex |-> Num(0), correctAnswer |-> Undefined,
       positiveMarks |-> Num(4), negativeMarks |-> Num(-1)] }

\* Answers a response can hold (typed, clicked, or restored from the stored attempt).
AnswerValues ==
    { Null, Undefined, Str(<<>>), Str(<<" ">>), Str(<<"0">>), Str(<<"1">>),
      Str(<<" ", "1">>), Str(<<"1", " ">>), Str(<<"1", "0">>) }

QuestionId(i) == CASE i = 1 -> "q1" [] i = 2 -> "q2" [] i = 3 -> "q3" [] OTHER -> "q4"

QuestionLists ==
    UNION { { [i \in 1..n |-> mapQuestion(QuestionId(i), d[i])] :
                d \in [1..n -> QuestionDocs] } : n \in 1..MaxQuestions }

ScoreInit ==
    /\ questions \in QuestionLists
    /\ responses = buildInitResponses(questions)
    /\ scoreOut = <<>>
    /\ now = 1
    /\ codeDocs = <<>> /\ unlockDocs = {} /\ tabs = <<>>
    /\ redemptions = 0 /\ consumed = <<>> /\ threadDocs = <<>>
    /\ testDocs = <<>> /\ attemptDocs = <<>> /\ cache = <<>>
    /\ mounted = TRUE /\ st = <<>> /\ ld = <<>>
    /\ NoFlow

\* A response's answer as handleAnswer / handleClearResponse / resume leave it.
ScoreSetAnswer(qid, ans) ==
    /\ scoreOut = <<>>
    /\ qid \in DOMAIN responses
    /\ responses[qid].answer = Null
    /\ ans # Null
    /\ responses' = [responses EXCEPT ![qid].answer = ans]
    /\ UNCHANGED <<questions, scoreOut, now, redeemVars, threadDocs, loadVars, flowVars>>

ScoreCompute ==
    /\ scoreOut = <<>>
    /\ scoreOut' = <<computeScore>>
    /\ UNCHANGED <<questions, responses, now, redeemVars, threadDocs, loadVars, flowVars>>

ScoreNext ==
    \/ \E qid \in QuestionIds, ans \in AnswerValues : ScoreSetAnswer(qid, ans)
    \/ ScoreCompute

SpecScore == ScoreInit /\ [][ScoreNext]_vars

(***************************************************************************)
(* Scoring properties                                                      *)
(***************************************************************************)
RECURSIVE SumOver(_, _)
SumOver(f, S) ==
    IF S = {} THEN 0
    ELSE LET x == CHOOSE y \in S : TRUE IN f[x] + SumOver(f, S \ {x})

QIdx == 1..Len(questions)

\* The stated classification of the response to question i.
StatedUnanswered(i) ==
    LET a == AnswerOf(responses, questions[i].id)
    IN  a.t \in {"null", "undefined"} \/ Trim(a.s) = <<>>

StatedCorrect(i) ==
    LET a == AnswerOf(responses, questions[i].id)
        q == questions[i]
    IN  /\ ~StatedUnanswered(i)
        /\ IF q.type = "mcq" THEN a.s = q.correctAnswer
           ELSE Trim(a.s) = Trim(q.correctAnswer)

StatedWrong(i) == ~StatedUnanswered(i) /\ ~StatedCorrect(i)

\* C1: computeScore returns score = (sum of marks.correct over the questions
\* answered correctly) - (sum of marks.incorrect over the questions answered
\* wrongly), unanswered questions (null, absent, blank after trimming) adding
\* nothing, and maxScore = sum of marks.correct over all questions; an mcq
\* answer is correct iff it equals the canonical index string, an integer
\* answer iff the trimmed strings are equal.
C1_ScoreIsSumOfMarks ==
    scoreOut # <<>> =>
        LET r == scoreOut[1]
            pos == [i \in QIdx |-> questions[i].marks.correct]
            neg == [i \in QIdx |-> questions[i].marks.incorrect]
        IN  /\ r.score = SumOver(pos, {i \in QIdx : StatedCorrect(i)})
                          - SumOver(neg, {i \in QIdx : StatedWrong(i)})
            /\ r.maxScore = SumOver(pos, QIdx)
            /\ r.correctCount = Cardinality({i \in QIdx : StatedCorrect(i)})
            /\ r.incorrectCount = Cardinality({i \in QIdx : StatedWrong(i)})
            /\ r.unansweredCount = Cardinality({i \in QIdx : StatedUnanswered(i)})

\* The example of the specification: two mcq questions marked {4, 1}, the first
\* answered correctly and the second wrongly: score 3 of 8.
C1_Witness ==
    /\ scoreOut # <<>>
    /\ Len(questions) = 2
    /\ \A i \in QIdx : questions[i].type = "mcq"
                        /\ questions[i].marks = [correct |-> 4, incorrect |-> 1]
    /\ StatedCorrect(1) /\ StatedWrong(2)
    /\ scoreOut[1].score = 3 /\ scoreOut[1].maxScore = 8

\* C2: accuracy = correctCount / (correctCount + incorrectCount) when at least
\* one question was answered and 0 when none was; unanswered questions never
\* enter the denominator.
C2_AccuracyOverAttempted ==
    scoreOut # <<>> =>
        LET r == scoreOut[1]
            correct == Cardinality({i \in QIdx : StatedCorrect(i)})
            attempted == Cardinality({i \in QIdx : ~StatedUnanswered(i)})
        IN  /\ r.accuracy.den > 0
            /\ IF attempted > 0
               THEN r.accuracy.num * attempted = correct * r.accuracy.den
               ELSE r.accuracy.num = 0

\* One question answered correctly and one left blank: accuracy is 1, not 1/2.
C2_Witness ==
    /\ scoreOut # <<>>
    /\ Len(questions) = 2
    /\ \E i, j \in QIdx : StatedCorrect(i) /\ StatedUnanswered(j)
    /\ scoreOut[1].accuracy = [num |-> 1, den |-> 1]

\* Nothing answered: accuracy is 0.
C2_WitnessNoneAttempted ==
    /\ scoreOut # <<>>
    /\ \A i \in QIdx : StatedUnanswered(i)
    /\ scoreOut[1].accuracy = Zero

(***************************************************************************)
(* Access-code redemption (StudentTestDetails.tsx)                         *)
(***************************************************************************)
MaxClock == 3
MaxRedemptions == 3

Students == {"s1", "s2"}
educatorId == "edu1"
\* Test ids, as strings of one token.
TestX == <<"testX">>
TestY == <<"testY">>
Tests == {TestX, TestY}

\* The id of the access code the educator created.
CodeAB == <<"A", "B">>

\* What a student types into the access-code input.
EnteredTexts == { <<" ", "a", "b">>, <<"z">>, <<" ">> }

TabIds == {"details", "list"}

ToUpperChar(c) ==
    CASE c = "a" -> "A" [] c = "b" -> "B" [] c = "z" -> "Z" [] OTHER -> c

\* String.prototype.toUpperCase
ToUpperCase(s) == [i \in 1..Len(s) |-> ToUpperChar(s[i])]

\* A Firestore Timestamp (it has toDate()).
Timestamp(ms) == [t |-> "timestamp", n |-> ms, s |-> <<>>]

\* JavaScript truthiness of a value.
Truthy(v) ==
    CASE v.t = "number" -> v.n # 0
      [] v.t = "string" -> v.s # <<>>
      [] v.t = "timestamp" -> TRUE
      [] OTHER -> FALSE

\* safeNum (StudentTestDetails.tsx:57-60, 599-602)
safeNum(v, fallback) ==
    CASE v.t = "number" -> v.n
      [] v.t = "null" -> 0
      [] OTHER -> fallback

\* isExpired (StudentTestDetails.tsx:81-86, 608-613), Date.now() = clock.
isExpired(expiresAt, clock) ==
    IF ~Truthy(expiresAt) THEN FALSE
    ELSE IF expiresAt.t # "timestamp" THEN FALSE
    ELSE expiresAt.n < clock

\* `${firebaseUser.uid}__${educatorId}__${testId}`
UnlockIdOf(uid, eid, testId) == <<uid, "__", eid, "__">> \o testId

\* Error messages thrown inside the transaction, as sequences of words.
ErrInvalid == <<"Invalid", "code">>
ErrMismatch == <<"Code", "does", "not", "match", "this", "test">>
ErrExhausted == <<"Code", "exhausted">>
ErrExpired == <<"Code", "expired">>
NoError == <<>>

\* String.prototype.includes, on words.
Includes(s, sub) ==
    \E i \in 1..(Len(s) - Len(sub) + 1) : SubSeq(s, i, i + Len(sub) - 1) = sub

ToastEnterCode == "Please enter an access code."
ToastInvalid == "Invalid access code."
ToastDifferentTest == "This code is for a different test."
ToastExhausted == "This code has reached its maximum uses."
ToastExpired == "This code is expired."
ToastNone == "(none)"

ToastSuccess(page) ==
    IF page = "details" THEN "Unlocked successfully!"
    ELSE "Access code redeemed! Test unlocked."

ToastFailed(page) ==
    IF page = "details" THEN "Failed to redeem code."
    ELSE "Failed to redeem code. Please try again."

\* The catch blocks without the "does not match" branch.
ToastForErrorNoMismatch(page, msg) ==
    IF Includes(msg, <<"Invalid", "code">>) THEN ToastInvalid
    ELSE IF Includes(msg, <<"exhausted">>) THEN ToastExhausted
    ELSE IF Includes(msg, <<"expired">>) THEN ToastExpired
    ELSE ToastFailed(page)

\* The catch blocks (StudentTestDetails.tsx:336-343, 880-887).
ToastForError(page, msg) ==
    IF Includes(msg, <<"Invalid", "code">>) THEN ToastInvalid
    ELSE IF Includes(msg, <<"does", "not", "match">>) THEN ToastDifferentTest
    ELSE IF Includes(msg, <<"exhausted">>) THEN ToastExhausted
    ELSE IF Includes(msg, <<"expired">>) THEN ToastExpired
    ELSE ToastFailed(page)

\* The transaction body up to the expiry check (StudentTestDetails.tsx:302-315,
\* 834-856): the error thrown, or NoError.  codeSnap is <<>> for a missing document.
ValidateCode(codeSnap, testId, clock) ==
    IF codeSnap = <<>> THEN ErrInvalid
    ELSE
      LET codeData == codeSnap[1]
          codeTestId == String(IF Truthy(codeData.testSeriesId)
                               THEN codeData.testSeriesId ELSE Str(Empty))
          maxUses == safeNum(codeData.maxUses, 0)
          usesUsed == safeNum(codeData.usesUsed, 0)
          expiresAt == IF codeData.expiresAt.t \in {"null", "undefined"}
                       THEN Null ELSE codeData.expiresAt
      IN  IF codeTestId = <<>> \/ codeTestId # testId THEN ErrMismatch
          ELSE IF maxUses > 0 /\ usesUsed >= maxUses THEN ErrExhausted
          ELSE IF isExpired(expiresAt, clock) THEN ErrExpired
          ELSE NoError

\* The rest of the body without the `already.exists()` return.
WritesUnlockAlways(unlockSnap) == TRUE

\* The rest of the body (StudentTestDetails.tsx:317-330, 858-874): whether the
\* unlock document and the usesUsed increment are written.
WritesUnlock(unlockSnap) == unlockSnap = <<>>

\* A document snapshot: <<>> when the document does not exist, else <<doc>>.
CodeSnapshot(codeId) ==
    IF codeId \in DOMAIN codeDocs THEN <<codeDocs[codeId]>> ELSE <<>>

UnlockSnapshot(id) ==
    LET hit == {u \in unlockDocs : u.id = id}
    IN  IF hit = {} THEN <<>> ELSE <<CHOOSE u \in hit : TRUE>>

\* A commit that verifies nothing it read.
CommitUnverified(i) == TRUE

\* Commit-time verification of a transaction: every document read through
\* tx.get is unchanged since it was read (runTransaction,
\* StudentTestDetails.tsx:301, 833).
CommitVerifies(i) ==
    /\ CodeSnapshot(tabs[i].codeUpper) = tabs[i].codeSnap
    /\ UnlockSnapshot(UnlockIdOf(tabs[i].student, educatorId, tabs[i].testId))
         = tabs[i].unlockSnap

\* increment(1) applied to a stored field
Increment(v) == IF v.t = "number" THEN Num(v.n + 1) ELSE Num(1)

\* selected: the route's testId (details page) or selectedTestId (list page);
\* testId: the value the running redemption captured.
IdleTab(student, page, testId) ==
    [ pc |-> "idle", student |-> student, page |-> page,
      selected |-> testId, testId |-> testId,
      codeUpper |-> <<>>, codeSnap |-> <<>>, unlockSnap |-> <<>>, readAt |-> 0,
      outcome |-> ToastNone, hadUnlock |-> FALSE ]

\* Access codes an educator can have created, not yet used.
CodeDocs ==
    [ testSeriesId : {Str(TestX), Undefined},
      maxUses : {Undefined, Num(1), Num(2)},
      usesUsed : {Num(0)},
      expiresAt : {Null, Timestamp(2)},
      lastUsedAt : {Null},
      ver : {0} ]

RedeemInit ==
    /\ now = 1
    /\ codeDocs \in [{CodeAB} -> CodeDocs]
    /\ unlockDocs = {}
    /\ \E s \in Students :
         tabs = [i \in TabIds |->
                   IF i = "details" THEN IdleTab("s1", "details", TestX)
                   ELSE IdleTab(s, "list", TestX)]
    /\ redemptions = 0
    /\ consumed = [k \in Students \X Tests |-> 0]
    /\ threadDocs = <<>>
    /\ questions = <<>> /\ responses = <<>> /\ scoreOut = <<>>
    /\ testDocs = <<>> /\ attemptDocs = <<>> /\ cache = <<>>
    /\ mounted = TRUE /\ st = <<>> /\ ld = <<>>
    /\ NoFlow

RedeemUnchanged == UNCHANGED <<scoreVars, loadVars, flowVars, threadDocs>>

\* Time passes.
RedeemTick ==
    /\ now < MaxClock
    /\ now' = now + 1
    /\ UNCHANGED <<codeDocs, unlockDocs, tabs, redemptions, consumed>>
    /\ RedeemUnchanged

\* handleUnlock (StudentTestDetails.tsx:812-816): the list page selects a test.
HandleUnlock(i, testId) ==
    /\ tabs[i].page = "list"
    /\ tabs[i].pc \in {"idle", "done"}
    /\ tabs[i].selected # testId
    /\ tabs' = [tabs EXCEPT ![i].selected = testId]
    /\ UNCHANGED <<now, codeDocs, unlockDocs, redemptions, consumed>>
    /\ RedeemUnchanged

\* redeemCode / handleRedeemCode up to runTransaction
\* (StudentTestDetails.tsx:286-299, 818-831).
StartRedeem(i, text) ==
    LET codeUpper == ToUpperCase(Trim(text))
    IN  /\ tabs[i].pc \in {"idle", "done"}
        /\ redemptions < MaxRedemptions
        /\ redemptions' = redemptions + 1
        /\ tabs' =
             IF codeUpper = <<>>
             THEN [tabs EXCEPT ![i].pc = "done", ![i].outcome = ToastEnterCode,
                               ![i].codeUpper = codeUpper,
                               ![i].testId = tabs[i].selected,
                               ![i].codeSnap = <<>>, ![i].unlockSnap = <<>>,
                               ![i].hadUnlock = FALSE]
             ELSE [tabs EXCEPT ![i].pc = "getCode", ![i].outcome = ToastNone,
                               ![i].codeUpper = codeUpper,
                               ![i].testId = tabs[i].selected,
                               ![i].codeSnap = <<>>, ![i].unlockSnap = <<>>,
                               ![i].hadUnlock =
                                   UnlockSnapshot(UnlockIdOf(tabs[i].student, educatorId,
                                                             tabs[i].selected)) # <<>>]
        /\ UNCHANGED <<now, codeDocs, unlockDocs, consumed>>
        /\ RedeemUnchanged

\* redeemCode (StudentTestDetails.tsx:286-347), the test details page.
RedeemCode(i, text) ==
    /\ tabs[i].page = "details"
    /\ StartRedeem(i, text)

\* handleRedeemCode (StudentTestDetails.tsx:818-891), the test list page.
HandleRedeemCode(i, text) ==
    /\ tabs[i].page = "list"
    /\ StartRedeem(i, text)

\* tx.get(codeRef) and the checks on it; a thrown error ends the redemption
\* in the catch block.
TxGetCode(i) ==
    /\ tabs[i].pc = "getCode"
    /\ LET snap == CodeSnapshot(tabs[i].codeUpper)
           err == ValidateCode(snap, tabs[i].testId, now)
       IN  tabs' =
             IF err # NoError
             THEN [tabs EXCEPT ![i].pc = "done", ![i].codeSnap = snap,
                               ![i].readAt = now,
                               ![i].outcome = ToastForError(tabs[i].page, err)]
             ELSE [tabs EXCEPT ![i].pc = "getUnlock", ![i].codeSnap = snap,
                               ![i].readAt = now]
    /\ UNCHANGED <<now, codeDocs, unlockDocs, redemptions, consumed>>
    /\ RedeemUnchanged

\* tx.get(unlockRef)
TxGetUnlock(i) ==
    /\ tabs[i].pc = "getUnlock"
    /\ tabs' = [tabs EXCEPT
                  ![i].pc = "commit",
                  ![i].unlockSnap =
                      UnlockSnapshot(UnlockIdOf(tabs[i].student, educatorId, tabs[i].testId))]
    /\ UNCHANGED <<now, codeDocs, unlockDocs, redemptions, consumed>>
    /\ RedeemUnchanged

\* The commit of the transaction: when a document read has changed the update
\* function runs again; otherwise the buffered writes (tx.set of the unlock,
\* tx.update of the code) are applied together.
TxCommit(i) ==
    /\ tabs[i].pc = "commit"
    /\ IF ~CommitVerifies(i)
       THEN /\ tabs' = [tabs EXCEPT ![i].pc = "getCode"]
            /\ UNCHANGED <<codeDocs, unlockDocs, consumed>>
       ELSE LET tb == tabs[i]
                id == UnlockIdOf(tb.student, educatorId, tb.testId)
                old == UnlockSnapshot(id)
            IN  /\ tabs' = [tabs EXCEPT ![i].pc = "done",
                                        ![i].outcome = ToastSuccess(tb.page)]
                /\ IF WritesUnlock(tb.unlockSnap)
                   THEN /\ unlockDocs' =
                             {u \in unlockDocs : u.id # id} \cup
                             { [ id |-> id, studentId |-> tb.student,
                                 educatorId |-> educatorId, testSeriesId |-> tb.testId,
                                 unlockedVia |-> "accessCode", accessCode |-> tb.codeUpper,
                                 unlockedAt |-> now,
                                 ver |-> IF old = <<>> THEN 1 ELSE old[1].ver + 1 ] }
                        /\ codeDocs' =
                             [codeDocs EXCEPT
                                ![tb.codeUpper].usesUsed = Increment(@),
                                ![tb.codeUpper].lastUsedAt = Timestamp(now),
                                ![tb.codeUpper].ver = @ + 1]
                        /\ consumed' = [consumed EXCEPT ![<<tb.student, tb.testId>>] = @ + 1]
                   ELSE UNCHANGED <<codeDocs, unlockDocs, consumed>>
    /\ UNCHANGED <<now, redemptions>>
    /\ RedeemUnchanged

RedeemNext ==
    \/ RedeemTick
    \/ \E i \in TabIds, testId \in Tests : HandleUnlock(i, testId)
    \/ \E i \in TabIds, text \in EnteredTexts : RedeemCode(i, text)
    \/ \E i \in TabIds, text \in EnteredTexts : HandleRedeemCode(i, text)
    \/ \E i \in TabIds : TxGetCode(i)
    \/ \E i \in TabIds : TxGetUnlock(i)
    \/ \E i \in TabIds : TxCommit(i)

SpecRedeem == RedeemInit /\ [][RedeemNext]_vars

(***************************************************************************)
(* Redemption properties                                                   *)
(***************************************************************************)
UnlocksOf(s, testId) ==
    {u \in unlockDocs : u.studentId = s /\ u.testSeriesId = testId}

Succeeded(i) ==
    tabs[i].pc = "done" /\ tabs[i].outcome = ToastSuccess(tabs[i].page)

\* C6: however often one student redeems the same valid code for the same
\* (educator, test), one after the other or at the same time, usesUsed rises by
\* at most 1 in total for that student and test, and exactly one testUnlocks
\* record (keyed student__educator__test) exists afterwards.
C6_RedeemedAtMostOnce ==
    /\ \A s \in Students, testId \in Tests :
         /\ consumed[<<s, testId>>] <= 1
         /\ Cardinality(UnlocksOf(s, testId)) = consumed[<<s, testId>>]
    /\ \A i \in TabIds :
         Succeeded(i) => Cardinality(UnlocksOf(tabs[i].student, tabs[i].testId)) = 1
    /\ (\A i \in TabIds : tabs[i].student = "s1") =>
         safeNum(codeDocs[CodeAB].usesUsed, 0) <= 1

\* Both dialogs belong to one student, both redemptions of the code for the same
\* test ended in success, and the code was consumed once.
C6_Witness ==
    /\ \A i \in TabIds : tabs[i].student = "s1" /\ tabs[i].testId = TestX /\ Succeeded(i)
    /\ codeDocs[CodeAB].usesUsed = Num(1)
    /\ Cardinality(unlockDocs) = 1

\* C7: when an unlock record already exists for (student, educator, test),
\* redeeming the code bound to that test again ends in success, whatever the
\* code's cap and usage count.
C7_RepeatRedemptionSucceeds ==
    \A i \in TabIds :
        ( /\ tabs[i].pc = "done"
          /\ tabs[i].hadUnlock
          /\ tabs[i].codeUpper \in DOMAIN codeDocs
          /\ codeDocs[tabs[i].codeUpper].testSeriesId = Str(tabs[i].testId) )
        => tabs[i].outcome = ToastSuccess(tabs[i].page)

\* The four failure conditions, as the transaction saw the code document.
SawMissing(i) == tabs[i].codeSnap = <<>>

SawOtherTest(i) ==
    /\ ~SawMissing(i)
    /\ tabs[i].codeSnap[1].testSeriesId # Str(tabs[i].testId)

SawExhausted(i) ==
    /\ ~SawMissing(i)
    /\ tabs[i].codeSnap[1].maxUses.t = "number"
    /\ tabs[i].codeSnap[1].maxUses.n > 0
    /\ tabs[i].codeSnap[1].usesUsed.n >= tabs[i].codeSnap[1].maxUses.n

SawExpired(i) ==
    /\ ~SawMissing(i)
    /\ tabs[i].codeSnap[1].expiresAt.t = "timestamp"
    /\ tabs[i].codeSnap[1].expiresAt.n < tabs[i].readAt

Failed(i) ==
    /\ tabs[i].pc = "done"
    /\ tabs[i].outcome \notin {ToastSuccess(tabs[i].page), ToastEnterCode, ToastNone}

C8_DistinctOutcomes ==
    /\ Cardinality({ToastInvalid, ToastDifferentTest, ToastExhausted, ToastExpired}) = 4
    /\ \A i \in TabIds :
         (tabs[i].pc = "done" /\ tabs[i].outcome # ToastEnterCode) =>
           /\ tabs[i].outcome = ToastInvalid <=> SawMissing(i)
           /\ tabs[i].outcome = ToastDifferentTest <=> SawOtherTest(i)
           /\ tabs[i].outcome = ToastExhausted => SawExhausted(i)
           /\ tabs[i].outcome = ToastExpired => SawExpired(i)
           /\ (SawExhausted(i) \/ SawExpired(i)) =>
                tabs[i].outcome \in {ToastDifferentTest, ToastExhausted, ToastExpired}

C8_FailureWritesNothing ==
    \A i \in TabIds :
        (tabs[i].pc # "done" /\ Failed(i)') =>
            (codeDocs' = codeDocs /\ unlockDocs' = unlockDocs)

\* C8: a redemption that fails because the code does not exist, is bound to
\* another test, is used up (usesUsed >= maxUses > 0) or is past its expiry
\* leaves the code document and the testUnlocks collection as they were, and
\* each of the four conditions has its own error outcome.
C8_FailedRedemption == [](C8_DistinctOutcomes) /\ [][C8_FailureWritesNothing]_vars

\* The example of the specification: a code bound to testX redeemed against testY
\* fails as "different test", with the code unused and no unlock created.
C8_Witness ==
    \E i \in TabIds :
        /\ Failed(i) /\ tabs[i].outcome = ToastDifferentTest
        /\ tabs[i].testId = TestY
        /\ codeDocs[CodeAB].testSeriesId = Str(TestX)
        /\ codeDocs[CodeAB].usesUsed = Num(0) /\ codeDocs[CodeAB].ver = 0
        /\ unlockDocs = {}

\* C9: under every interleaving of redemptions of one code by different
\* students, usesUsed equals the number of unlock records created through the
\* code, and a code with maxUses > 0 never has usesUsed > maxUses.
C9_UsesMatchUnlocks ==
    LET code == codeDocs[CodeAB]
    IN  /\ safeNum(code.usesUsed, 0) = Cardinality({u \in unlockDocs : u.accessCode = CodeAB})
        /\ safeNum(code.maxUses, 0) > 0 => safeNum(code.usesUsed, 0) <= safeNum(code.maxUses, 0)

\* Two students raced for a single-use code: one unlocked, the other was told
\* the code is used up.
C9_Witness ==
    /\ codeDocs[CodeAB].maxUses = Num(1)
    /\ codeDocs[CodeAB].usesUsed = Num(1)
    /\ tabs["details"].student # tabs["list"].student
    /\ \E i, j \in TabIds :
         /\ Succeeded(i)
         /\ tabs[j].pc = "done" /\ tabs[j].outcome = ToastExhausted
         /\ tabs[j].codeSnap # <<>> /\ tabs[j].codeSnap[1].ver = 1

(***************************************************************************)
(* StudentCBTAttempt: load and resume discovery (part_002:205-366)         *)
(***************************************************************************)
\* The signed-in student, the route's test and the tenant's educator.
uid == "s1"
testId == TestX

\* A stored test document with its questions subcollection.
TestDoc(minutes, qdocs) == [durationMinutes |-> minutes, questions |-> qdocs]

McqDoc ==
    [type |-> "mcq", correctOptionIndex |-> Num(1), correctAnswer |-> Undefined,
     positiveMarks |-> Num(4), negativeMarks |-> Num(1)]

IntegerDoc ==
    [type |-> "integer", correctOptionIndex |-> Undefined, correctAnswer |-> Num(1),
     positiveMarks |-> Num(4), negativeMarks |-> Num(1)]

\* The component's useState initial values (part_002:138-158). The values only
\* displayed (saving, lastSavedAt, currentSectionId) are left out.
InitState ==
    [ loading |-> TRUE, loadError |-> "", testMeta |-> <<>>, currentIndex |-> 0,
      attemptId |-> <<>>, attemptStartedAtMs |-> Null, durationSec |-> 0,
      isStarted |-> FALSE, startDialogOpen |-> TRUE, submitDialogOpen |-> FALSE,
      timerStartSeconds |-> 0 ]

NoResponses == [qid \in {} |-> InitResponse]

InitLoad ==
    [ pc |-> "own", meta |-> <<>>, source |-> "", cachedId |-> <<>>, checked |-> FALSE ]

\* loadAttemptById without the status check.
loadAttemptByIdAnyStatus(id) ==
    IF id \notin DOMAIN attemptDocs THEN <<>>
    ELSE LET a == attemptDocs[id]
         IN  IF a.studentId # uid THEN <<>>
             ELSE IF a.testId # testId THEN <<>>
             ELSE IF a.educatorId # educatorId THEN <<>>
             ELSE <<[id |-> id, doc |-> a]>>

\* loadAttemptById (part_002:280-289): the attempt, or <<>> for null.
loadAttemptById(id) ==
    IF id \notin DOMAIN attemptDocs THEN <<>>
    ELSE LET a == attemptDocs[id]
         IN  IF a.studentId # uid THEN <<>>
             ELSE IF a.testId # testId THEN <<>>
             ELSE IF a.status # "in_progress" THEN <<>>
             ELSE IF a.educatorId # educatorId THEN <<>>
             ELSE <<[id |-> id, doc |-> a]>>

\* The query ordered by createdAt ascending.
QueryAttemptOldest ==
    LET hits == {id \in DOMAIN attemptDocs :
                    /\ attemptDocs[id].studentId = uid
                    /\ attemptDocs[id].testId = testId
                    /\ attemptDocs[id].educatorId = educatorId
                    /\ attemptDocs[id].status = "in_progress"}
    IN  IF hits = {} THEN <<>>
        ELSE LET top == CHOOSE id \in hits :
                           \A o \in hits : attemptDocs[o].createdAt >= attemptDocs[id].createdAt
             IN  <<[id |-> top, doc |-> attemptDocs[top]]>>

\* The query of part_002:300-308: in_progress attempts of this student, test and
\* educator, newest first, limit 1.
QueryAttempt ==
    LET hits == {id \in DOMAIN attemptDocs :
                    /\ attemptDocs[id].studentId = uid
                    /\ attemptDocs[id].testId = testId
                    /\ attemptDocs[id].educatorId = educatorId
                    /\ attemptDocs[id].status = "in_progress"}
    IN  IF hits = {} THEN <<>>
        ELSE LET top == CHOOSE id \in hits :
                           \A o \in hits : attemptDocs[o].createdAt <= attemptDocs[id].createdAt
             IN  <<[id |-> top, doc |-> attemptDocs[top]]>>

\* The stored responses laid over the initial ones (part_002:322-329).
RestoreResponses(prev, stored) ==
    [qid \in DOMAIN prev |-> IF qid \in DOMAIN stored THEN stored[qid] ELSE prev[qid]]

\* The end of load() (part_002:317-349 and the finally block), given the
\* attempt found (<<>> for none).
LoadFinish(found, nextLd) ==
    IF ~mounted
    THEN /\ ld' = [nextLd EXCEPT !.pc = "stopped"]
         /\ UNCHANGED <<st, responses>>
    ELSE /\ ld' = [nextLd EXCEPT !.pc = "ready"]
         /\ IF found # <<>>
            THEN LET a == found[1].doc
                     startedMs == IF Truthy(a.startedAtMs) THEN a.startedAtMs ELSE Null
                 IN  /\ st' = [st EXCEPT
                                 !.attemptId = <<found[1].id>>,
                                 !.currentIndex = safeNumber(a.currentIndex, 0),
                                 !.attemptStartedAtMs =
                                     IF Truthy(startedMs)
                                     THEN Num(safeNumber(startedMs, now)) ELSE Null,
                                 !.durationSec =
                                     safeNumber(a.durationSec, ld.meta[1].durationMinutes * 60),
                                 !.isStarted = FALSE,
                                 !.startDialogOpen = TRUE,
                                 !.loading = FALSE]
                     /\ responses' = RestoreResponses(responses, a.responses)
            ELSE /\ st' = [st EXCEPT !.attemptId = <<>>,
                                     !.attemptStartedAtMs = Null,
                                     !.isStarted = FALSE,
                                     !.startDialogOpen = TRUE,
                                     !.loading = FALSE]
                 /\ UNCHANGED responses

\* The catch and finally blocks of load() (part_002:350-357).
LoadFail(msg) ==
    IF ~mounted
    THEN /\ ld' = [ld EXCEPT !.pc = "stopped"]
         /\ UNCHANGED st
    ELSE /\ ld' = [ld EXCEPT !.pc = "error"]
         /\ st' = [st EXCEPT !.loadError = msg, !.loading = FALSE]

LoadFrame ==
    UNCHANGED <<scoreOut, now, redeemVars, threadDocs, testDocs, attemptDocs, mounted, flowVars>>

\* LoadGetTestDoc with the two test documents read in the other order.
LoadGetTestDocSharedFirst ==
    /\ ld.pc \in {"own", "shared"}
    /\ LET snap == IF ld.pc = "own" THEN testDocs.shared ELSE testDocs.own
       IN  IF snap # <<>>
           THEN /\ ld' = [ld EXCEPT !.pc = "questions", !.source = ld.pc,
                                    !.meta = <<[durationMinutes |->
                                                  safeNumber(snap[1].durationMinutes, 60)]>>]
                /\ UNCHANGED st
           ELSE IF ld.pc = "own"
           THEN /\ ld' = [ld EXCEPT !.pc = "shared"]
                /\ UNCHANGED st
           ELSE LoadFail("Test not found")
    /\ UNCHANGED <<questions, responses, cache>>
    /\ LoadFrame

\* getDoc of the educator's my_tests document, then of the test_series document
\* (part_002:244-258).
LoadGetTestDoc ==
    /\ ld.pc \in {"own", "shared"}
    /\ LET snap == IF ld.pc = "own" THEN testDocs.own ELSE testDocs.shared
       IN  IF snap # <<>>
           THEN /\ ld' = [ld EXCEPT !.pc = "questions", !.source = ld.pc,
                                    !.meta = <<[durationMinutes |->
                                                  safeNumber(snap[1].durationMinutes, 60)]>>]
                /\ UNCHANGED st
           ELSE IF ld.pc = "own"
           THEN /\ ld' = [ld EXCEPT !.pc = "shared"]
                /\ UNCHANGED st
           ELSE LoadFail("Test not found")
    /\ UNCHANGED <<questions, responses, cache>>
    /\ LoadFrame

\* getDocs of the winning source's questions, the state set from them and the
\* read of the cached attempt id (part_002:260-292).
LoadGetQuestions ==
    /\ ld.pc = "questions"
    /\ LET snap == IF ld.source = "own" THEN testDocs.own ELSE testDocs.shared
           qdocs == snap[1].questions
           qs == [i \in 1..Len(qdocs) |-> mapQuestion(QuestionId(i), qdocs[i])]
       IN  IF Len(qs) = 0
           THEN /\ LoadFail("No questions found in this test")
                /\ UNCHANGED <<questions, responses>>
           ELSE IF ~mounted
           THEN /\ ld' = [ld EXCEPT !.pc = "stopped"]
                /\ UNCHANGED <<st, questions, responses>>
           ELSE /\ questions' = qs
                /\ responses' = buildInitResponses(qs)
                /\ st' = [st EXCEPT !.testMeta = ld.meta,
                                    !.durationSec = ld.meta[1].durationMinutes * 60,
                                    !.currentIndex = 0]
                /\ ld' = [ld EXCEPT !.cachedId = cache,
                                    !.pc = IF cache # <<>> THEN "cached" ELSE "query"]
    /\ UNCHANGED cache
    /\ LoadFrame

\* loadAttemptById(cachedId) and what follows it without another await
\* (part_002:294-297, 317-349).
LoadCachedAttempt ==
    /\ ld.pc = "cached"
    /\ LET found == loadAttemptById(ld.cachedId[1])
       IN  IF found = <<>>
           THEN /\ cache' = <<>>
                /\ ld' = [ld EXCEPT !.pc = "query", !.checked = TRUE]
                /\ UNCHANGED <<st, responses>>
           ELSE /\ LoadFinish(found, [ld EXCEPT !.checked = TRUE])
                /\ UNCHANGED cache
    /\ UNCHANGED questions
    /\ LoadFrame

\* The fallback query and the end of load (part_002:299-349).
LoadQueryAttempt ==
    /\ ld.pc = "query"
    /\ LET found == QueryAttempt
       IN  /\ cache' = IF found # <<>> THEN <<found[1].id>> ELSE cache
           /\ LoadFinish(found, ld)
    /\ UNCHANGED questions
    /\ LoadFrame

\* The effect's cleanup (part_002:362-365).
Unmount ==
    /\ mounted
    /\ mounted' = FALSE
    /\ saveTimer' = <<>>
    /\ UNCHANGED <<scoreVars, now, redeemVars, threadDocs, testDocs, attemptDocs, cache, st, ld>>
    /\ UNCHANGED <<pendingUpdate, writes, starts, submits, timer, hist>>

(***************************************************************************)
(* StudentCBTAttempt: start, navigation, autosave, submit                  *)
(* (part_002:105-110, 165-194, 374-608)                                    *)
(***************************************************************************)
\* Handler calls and clock ticks a run may hold (dialog toggles are not counted).
MaxEvents == 3

Max(a, b) == IF a > b THEN a ELSE b

Min(a, b) == IF a < b THEN a ELSE b

\* The resume test with `<` in place of `<=`.
ResumeExpiredStrict(id, startedAtMs, remaining) ==
    id # <<>> /\ Truthy(startedAtMs) /\ remaining < 0

\* computeRemainingSeconds (part_002:105-110), Date.now() = clock.
computeRemainingSeconds(startedAtMs, totalSec, clock) ==
    IF totalSec = 0 THEN 0
    ELSE IF ~Truthy(startedAtMs) THEN totalSec
    ELSE LET elapsed == (clock - startedAtMs.n) \div 1000
         IN  Max(0, totalSec - elapsed)

\* The test of part_002:422: an attempt that is already over.
ResumeExpired(id, startedAtMs, remaining) ==
    id # <<>> /\ Truthy(startedAtMs) /\ remaining <= 0

\* currentQuestion (part_002:202): <<>> for null.
CurrentQuestion(s) ==
    IF s.currentIndex >= 0 /\ s.currentIndex < Len(questions)
    THEN <<questions[s.currentIndex + 1]>> ELSE <<>>

\* The early returns of the render (part_002:621-622): the attempt screen is shown.
Rendered ==
    /\ mounted
    /\ ~st.loading
    /\ st.loadError = ""
    /\ st.testMeta # <<>>
    /\ CurrentQuestion(st) # <<>>

\* ---- patches: Firestore field paths -> values
EmptyPatch == [path \in {} |-> 0]

Merge(a, b) ==
    [path \in DOMAIN a \cup DOMAIN b |-> IF path \in DOMAIN b THEN b[path] ELSE a[path]]

IndexPatch(idx) == <<"currentIndex">> :> idx

FieldPath(qId, field) == <<"responses", qId, field>>

\* updateDoc's effect on a stored attempt; every update carries
\* updatedAt: serverTimestamp(), kept here as the document's count of updates.
ApplyPatch(a, patch) ==
    [a EXCEPT
        !.updatedAt = @ + 1,
        !.currentIndex = IF <<"currentIndex">> \in DOMAIN patch
                         THEN Num(patch[<<"currentIndex">>]) ELSE @,
        !.responses = [qId \in DOMAIN @ |->
                         [field \in DOMAIN @[qId] |->
                            IF FieldPath(qId, field) \in DOMAIN patch
                            THEN patch[FieldPath(qId, field)]
                            ELSE @[qId][field]]]]

\* queueAttemptUpdate with the spread reversed: the buffered value wins.
queueAttemptUpdateFirstWins(q, ref, patch) ==
    IF ref = <<>> THEN q
    ELSE [pending |-> Merge(patch, q.pending), timer |-> ref]

\* queueAttemptUpdate (part_002:171-194) up to the timeout it arms: q is
\* [pending, timer], ref the attemptRef of the calling render.
queueAttemptUpdate(q, ref, patch) ==
    IF ref = <<>> THEN q
    ELSE [pending |-> Merge(q.pending, patch), timer |-> ref]

Queue == [pending |-> pendingUpdate, timer |-> saveTimer]

\* ---- writes in flight
\* The sentinel serverTimestamp() puts in a payload.
ServerTimestamp == "serverTimestamp"

\* updateDoc(ref, { ...patch, updatedAt: serverTimestamp() }) (part_002:183, 563).
UpdateWrite(id, patch, handler, k) ==
    [kind |-> "update", id |-> id, patch |-> patch, doc |-> <<>>, result |-> <<>>,
     handler |-> handler, k |-> k, updatedAt |-> ServerTimestamp]

\* The effect's guards without the test of cur.visited.
ShouldMarkVisitedAgain(resp, s) ==
    /\ s.isStarted
    /\ CurrentQuestion(s) # <<>>
    /\ s.attemptId # <<>>
    /\ CurrentQuestion(s)[1].id \in DOMAIN resp

\* The guards of the mark-visited effect (part_002:376-381).
ShouldMarkVisited(resp, s) ==
    /\ s.isStarted
    /\ CurrentQuestion(s) # <<>>
    /\ s.attemptId # <<>>
    /\ CurrentQuestion(s)[1].id \in DOMAIN resp
    /\ ~resp[CurrentQuestion(s)[1].id].visited

\* The TimerChip on screen once state s is rendered: a chip mounted under a new
\* timerKey counts down from the timerStartSeconds it is given.
TimerChip(s) ==
    IF s.isStarted /\ (~timer.on \/ timer.key # s.attemptId)
    THEN [on |-> TRUE, key |-> s.attemptId, fired |-> FALSE,
          deadline |-> now + s.timerStartSeconds * 1000]
    ELSE timer

\* The chip's countdown has reached zero and it has not signalled yet.
TimerExpired == timer.on /\ ~timer.fired /\ now >= timer.deadline

\* The render that follows a handler which left state s, responses r, queue q
\* and history h: the mark-visited effect (part_002:374-387) and the TimerChip
\* keyed by timerKey (part_002:624, 680).
Rerender(s, r, q, h) ==
    IF ~mounted
    THEN /\ UNCHANGED <<st, responses, timer>>
         /\ pendingUpdate' = q.pending /\ saveTimer' = q.timer
         /\ hist' = h
    ELSE LET mark == ShouldMarkVisited(r, s)
             qId == CurrentQuestion(s)[1].id
             q2 == IF mark
                   THEN queueAttemptUpdate(q, s.attemptId,
                            (FieldPath(qId, "visited") :> TRUE) @@ IndexPatch(s.currentIndex))
                   ELSE q
         IN  /\ st' = s
             /\ responses' = IF mark THEN [r EXCEPT ![qId].visited = TRUE] ELSE r
             /\ pendingUpdate' = q2.pending
             /\ saveTimer' = q2.timer
             /\ timer' = TimerChip(s)
             /\ hist' = IF mark THEN [h EXCEPT !.visitedPatches[qId] = @ + 1] ELSE h

\* State a handler sets without leaving the question or the attempt.
SetState(s) == IF mounted THEN s ELSE st

FlowFrame == UNCHANGED <<questions, scoreOut, redeemVars, threadDocs, testDocs, ld>>

\* A call that has returned, with outcome pc: the values it closed over are gone.
Returned(inv, pc) ==
    [inv EXCEPT !.pc = pc, !.responses = NoResponses, !.startedAtMs = Null,
                !.durationSec = 0]

Event == [hist EXCEPT !.events = @ + 1]

\* ---- the values a handler closes over at the render it was created in
Closure ==
    [ id |-> st.attemptId, startedAtMs |-> st.attemptStartedAtMs,
      durationSec |-> st.durationSec, currentIndex |-> st.currentIndex,
      responses |-> responses ]

TotalSec(c) ==
    IF c.durationSec # 0 THEN c.durationSec ELSE st.testMeta[1].durationMinutes * 60

\* ---- handleSubmit (part_002:566-603) and flushPendingSaves (part_002:558-564)
\* The finalizing write of part_002:573-590.
FinalWrite(c, k, clock) ==
    LET sc == computeScoreOf(questions, c.responses)
        totalSec == TotalSec(c)
        startedAtMs == IF Truthy(c.startedAtMs) THEN c.startedAtMs ELSE Num(clock)
        remaining == computeRemainingSeconds(startedAtMs, totalSec, clock)
    IN  [kind |-> "final", id |-> c.id[1], patch |-> EmptyPatch, doc |-> <<>>,
         result |-> <<[score |-> sc, timeTakenSec |-> Max(0, totalSec - remaining)]>>,
         handler |-> "submit", k |-> k]

CountFinal(h, id) ==
    [h EXCEPT !.finalWrites =
        [i \in DOMAIN @ \cup {id} |-> IF i \in DOMAIN @ THEN @[i] + (IF i = id THEN 1 ELSE 0)
                                      ELSE 1]]

\* handleSubmit without the call of flushPendingSaves.
handleSubmitNoFlush(c, isAutoSubmit, q, w, subs, h) ==
    IF c.id = <<>>
    THEN [q |-> q, writes |-> w, submits |-> subs, hist |-> h, ran |-> FALSE]
    ELSE LET k == Len(subs) + 1
             inv == [id |-> c.id, startedAtMs |-> c.startedAtMs,
                     durationSec |-> c.durationSec, responses |-> c.responses,
                     isAuto |-> isAutoSubmit, pc |-> "finalizing",
                     buffered |-> DOMAIN q.pending # {}]
         IN  [q |-> q,
              writes |-> Append(w, FinalWrite(c, k, now)),
              submits |-> Append(subs, inv),
              hist |-> CountFinal(h, c.id[1]), ran |-> TRUE]

\* handleSubmit up to its first pending await, called with closure c: the
\* queue, writes, invocations and history it leaves. The field buffered is
\* history: patches were waiting in the debounce queue at the call.
handleSubmit(c, isAutoSubmit, q, w, subs, h) ==
    IF c.id = <<>>
    THEN [q |-> q, writes |-> w, submits |-> subs, hist |-> h, ran |-> FALSE]
    ELSE LET k == Len(subs) + 1
             inv == [id |-> c.id, startedAtMs |-> c.startedAtMs,
                     durationSec |-> c.durationSec, responses |-> c.responses,
                     isAuto |-> isAutoSubmit, pc |-> "",
                     buffered |-> DOMAIN q.pending # {}]
         IN  IF DOMAIN q.pending # {}
             THEN [q |-> [pending |-> EmptyPatch, timer |-> <<>>],
                   writes |-> Append(w, UpdateWrite(c.id[1], q.pending, "submit", k)),
                   submits |-> Append(subs, [inv EXCEPT !.pc = "flushing"]),
                   hist |-> h, ran |-> TRUE]
             ELSE [q |-> [pending |-> EmptyPatch, timer |-> <<>>],
                   writes |-> Append(w, FinalWrite(c, k, now)),
                   submits |-> Append(subs, [inv EXCEPT !.pc = "finalizing"]),
                   hist |-> CountFinal(h, c.id[1]), ran |-> TRUE]

\* The Submit Test button of the submit dialog (part_002:855).
SubmitClick ==
    /\ Rendered /\ st.submitDialogOpen /\ st.isStarted
    /\ hist.events < MaxEvents
    /\ LET r == handleSubmit(Closure, FALSE, Queue, writes, submits, Event)
       IN  /\ pendingUpdate' = r.q.pending /\ saveTimer' = r.q.timer
           /\ writes' = r.writes /\ submits' = r.submits /\ hist' = r.hist
    /\ UNCHANGED <<responses, now, attemptDocs, cache, mounted, st, starts, timer>>
    /\ FlowFrame

\* handleTimeUp (part_002:605-608), called by the TimerChip when its countdown
\* reaches zero.
TimeUp ==
    /\ Rendered /\ st.isStarted
    /\ TimerExpired
    /\ hist.events < MaxEvents
    /\ LET r == handleSubmit(Closure, TRUE, Queue, writes, submits, Event)
       IN  /\ pendingUpdate' = r.q.pending /\ saveTimer' = r.q.timer
           /\ writes' = r.writes /\ submits' = r.submits /\ hist' = r.hist
    /\ timer' = [timer EXCEPT !.fired = TRUE]
    /\ UNCHANGED <<responses, now, attemptDocs, cache, mounted, st, starts>>
    /\ FlowFrame

\* The catch and finally blocks of handleSubmit (part_002:596-602).
SubmitFinally(s) == [s EXCEPT !.submitDialogOpen = FALSE]

\* ResolveSubmitWrite with the cache entry removed in the finally block.
ResolveSubmitWriteClearsCache(ok) ==
    /\ writes # <<>> /\ writes[1].handler = "submit"
    /\ LET w == writes[1]
           k == w.k
           inv == submits[k]
       IN  IF w.kind = "update"
           THEN /\ attemptDocs' = IF ok THEN [attemptDocs EXCEPT ![w.id] = ApplyPatch(@, w.patch)]
                                  ELSE attemptDocs
                /\ IF ok
                   THEN /\ writes' = Append(Tail(writes), FinalWrite(inv, k, now))
                        /\ submits' = [submits EXCEPT ![k].pc = "finalizing"]
                        /\ hist' = CountFinal(hist, inv.id[1])
                        /\ UNCHANGED st
                   ELSE /\ writes' = Tail(writes)
                        /\ submits' = [submits EXCEPT ![k] = Returned(@, "failed")]
                        /\ st' = SetState(SubmitFinally(st))
                        /\ UNCHANGED hist
                /\ UNCHANGED cache
           ELSE /\ writes' = Tail(writes)
                /\ UNCHANGED hist
                /\ IF ok
                   THEN /\ attemptDocs' = [attemptDocs EXCEPT
                                             ![w.id].status = "submitted",
                                             ![w.id].result = w.result,
                                             ![w.id].updatedAt = @ + 1]
                        /\ cache' = <<>>
                        /\ submits' = [submits EXCEPT ![k].pc = "exiting"]
                        /\ UNCHANGED st
                   ELSE /\ submits' = [submits EXCEPT ![k] = Returned(@, "failed")]
                        /\ st' = SetState(SubmitFinally(st))
                        /\ cache' = <<>>
                        /\ UNCHANGED attemptDocs
    /\ UNCHANGED <<responses, now, mounted, pendingUpdate, saveTimer, starts, timer>>
    /\ FlowFrame

\* Firestore acknowledges or rejects the oldest write of handleSubmit; its
\* continuation runs (part_002:571-593).
ResolveSubmitWrite(ok) ==
    /\ writes # <<>> /\ writes[1].handler = "submit"
    /\ LET w == writes[1]
           k == w.k
           inv == submits[k]
       IN  IF w.kind = "update"
           THEN /\ attemptDocs' = IF ok THEN [attemptDocs EXCEPT ![w.id] = ApplyPatch(@, w.patch)]
                                  ELSE attemptDocs
                /\ IF ok
                   THEN /\ writes' = Append(Tail(writes), FinalWrite(inv, k, now))
                        /\ submits' = [submits EXCEPT ![k].pc = "finalizing"]
                        /\ hist' = CountFinal(hist, inv.id[1])
                        /\ UNCHANGED st
                   ELSE /\ writes' = Tail(writes)
                        /\ submits' = [submits EXCEPT ![k] = Returned(@, "failed")]
                        /\ st' = SetState(SubmitFinally(st))
                        /\ UNCHANGED hist
                /\ UNCHANGED cache
           ELSE /\ writes' = Tail(writes)
                /\ UNCHANGED hist
                /\ IF ok
                   THEN /\ attemptDocs' = [attemptDocs EXCEPT
                                             ![w.id].status = "submitted",
                                             ![w.id].result = w.result,
                                             ![w.id].updatedAt = @ + 1]
                        /\ cache' = <<>>
                        /\ submits' = [submits EXCEPT ![k].pc = "exiting"]
                        /\ UNCHANGED st
                   ELSE /\ submits' = [submits EXCEPT ![k] = Returned(@, "failed")]
                        /\ st' = SetState(SubmitFinally(st))
                        /\ UNCHANGED <<attemptDocs, cache>>
    /\ UNCHANGED <<responses, now, mounted, pendingUpdate, saveTimer, starts, timer>>
    /\ FlowFrame

\* exitFullscreenSafe has settled: navigate to the results page, which unmounts
\* the component (part_002:593-595, 599-602, 362-365).
SubmitNavigate(k) ==
    /\ k \in DOMAIN submits /\ submits[k].pc = "exiting"
    /\ submits' = [submits EXCEPT ![k] = Returned(@, "navigated")]
    /\ st' = SetState(SubmitFinally(st))
    /\ mounted' = FALSE
    /\ saveTimer' = <<>>
    /\ UNCHANGED <<responses, now, attemptDocs, cache, pendingUpdate, writes, starts,
                   timer, hist>>
    /\ FlowFrame

\* ---- handleStart (part_002:409-473)
\* History: the stored attempt ref has a start time and is over at time clock.
StoredAttemptOver(ref, clock) ==
    /\ ref # <<>>
    /\ ref[1] \in DOMAIN attemptDocs
    /\ Truthy(attemptDocs[ref[1]].startedAtMs)
    /\ clock >= attemptDocs[ref[1]].startedAtMs.n + attemptDocs[ref[1]].durationSec.n * 1000

\* Start / Resume in the start dialog or in the header (part_002:667, 698-702),
\* up to the await of requestFullscreenSafe.
StartClick ==
    /\ Rendered /\ (st.startDialogOpen \/ ~st.isStarted)
    /\ hist.events < MaxEvents
    /\ starts' = Append(starts, Closure @@ [pc |-> "fullscreen", totalSec |-> TotalSec(Closure),
                                              over |-> StoredAttemptOver(st.attemptId, now)])
    /\ hist' = Event
    /\ UNCHANGED <<responses, now, attemptDocs, cache, mounted, st, pendingUpdate,
                   saveTimer, writes, submits, timer>>
    /\ FlowFrame

\* The attempt document built without its responses map.
NewAttemptWithoutResponses(inv, clock) ==
    [ studentId |-> uid, educatorId |-> educatorId, testId |-> testId,
      status |-> "in_progress", durationSec |-> Num(inv.totalSec),
      startedAtMs |-> Num(clock), currentIndex |-> Num(inv.currentIndex),
      responses |-> NoResponses, createdAt |-> clock,
      updatedAt |-> 0, result |-> <<>> ]

\* The attempt document of part_002:432-447.
NewAttempt(inv, clock) ==
    [ studentId |-> uid, educatorId |-> educatorId, testId |-> testId,
      status |-> "in_progress", durationSec |-> Num(inv.totalSec),
      startedAtMs |-> Num(clock), currentIndex |-> Num(inv.currentIndex),
      responses |-> buildInitResponses(questions), createdAt |-> clock,
      updatedAt |-> 0, result |-> <<>> ]

\* The end of handleStart (part_002:462-468) for attempt id with start time
\* startedAtMs, after responses r were set.
StartTail(inv, id, startedAtMs, s, r) ==
    LET remaining == computeRemainingSeconds(startedAtMs, inv.totalSec, now)
    IN  Rerender([s EXCEPT !.attemptStartedAtMs = startedAtMs,
                           !.durationSec = inv.totalSec,
                           !.timerStartSeconds = remaining,
                           !.isStarted = TRUE,
                           !.startDialogOpen = FALSE],
                 r, Queue, hist)

\* requestFullscreenSafe has settled: handleStart runs to its next await or to
\* its end (part_002:415-468).
StartDecide(k) ==
    /\ k \in DOMAIN starts /\ starts[k].pc = "fullscreen"
    /\ LET inv == starts[k]
           remaining == computeRemainingSeconds(inv.startedAtMs, inv.totalSec, now)
       IN  IF ResumeExpired(inv.id, inv.startedAtMs, remaining)
           THEN LET r == handleSubmit(inv, TRUE, Queue, writes, submits, hist)
                IN  /\ starts' = [starts EXCEPT ![k] = Returned(@, "routed")]
                    /\ pendingUpdate' = r.q.pending /\ saveTimer' = r.q.timer
                    /\ writes' = r.writes /\ submits' = r.submits /\ hist' = r.hist
                    /\ UNCHANGED <<st, responses, timer>>
           ELSE IF inv.id = <<>>
           THEN /\ starts' = [starts EXCEPT ![k].pc = "adding", ![k].startedAtMs = Num(now)]
                /\ writes' = Append(writes,
                       [kind |-> "add", id |-> "", patch |-> EmptyPatch,
                        doc |-> <<NewAttempt(inv, now)>>, result |-> <<>>,
                        handler |-> "start", k |-> k])
                /\ UNCHANGED <<st, responses, pendingUpdate, saveTimer, submits, timer, hist>>
           ELSE IF ~Truthy(inv.startedAtMs)
           THEN /\ starts' = [starts EXCEPT ![k].pc = "updating", ![k].startedAtMs = Num(now)]
                /\ st' = SetState([st EXCEPT !.attemptStartedAtMs = Num(now)])
                /\ writes' = Append(writes,
                       [kind |-> "startedAt", id |-> inv.id[1], patch |-> EmptyPatch,
                        doc |-> <<>>, result |-> <<>>, handler |-> "start", k |-> k])
                /\ UNCHANGED <<responses, pendingUpdate, saveTimer, submits, timer, hist>>
           ELSE /\ starts' = [starts EXCEPT ![k] = Returned(@, "done")]
                /\ StartTail(inv, inv.id, inv.startedAtMs, st, responses)
                /\ UNCHANGED <<writes, submits>>
    /\ UNCHANGED <<now, attemptDocs, cache, mounted>>
    /\ FlowFrame

\* Ids addDoc assigns, in creation order.
NewIds == <<"n1", "n2", "n3", "n4", "n5", "n6">>

\* Firestore acknowledges or rejects the oldest write of handleStart; its
\* continuation runs (part_002:449-472).
ResolveStartWrite(ok) ==
    /\ writes # <<>> /\ writes[1].handler = "start"
    /\ writes' = Tail(writes)
    /\ LET w == writes[1]
           k == w.k
           inv == starts[k]
           newId == NewIds[hist.created + 1]
       IN  IF ~ok
           THEN /\ starts' = [starts EXCEPT ![k] = Returned(@, "failed")]
                /\ UNCHANGED <<attemptDocs, cache, st, responses, pendingUpdate, saveTimer,
                               timer, hist>>
           ELSE IF w.kind = "add"
           THEN /\ attemptDocs' = (newId :> w.doc[1]) @@ attemptDocs
                /\ cache' = <<newId>>
                /\ starts' = [starts EXCEPT ![k] = Returned([@ EXCEPT !.id = <<newId>>], "done")]
                /\ LET h == [hist EXCEPT !.created = @ + 1]
                       s == [st EXCEPT !.attemptId = <<newId>>]
                       r == Merge(buildInitResponses(questions), responses)
                       remaining == computeRemainingSeconds(inv.startedAtMs, inv.totalSec, now)
                   IN  Rerender([s EXCEPT !.attemptStartedAtMs = inv.startedAtMs,
                                          !.durationSec = inv.totalSec,
                                          !.timerStartSeconds = remaining,
                                          !.isStarted = TRUE,
                                          !.startDialogOpen = FALSE],
                                r, Queue, h)
           ELSE /\ attemptDocs' = [attemptDocs EXCEPT ![w.id].startedAtMs = inv.startedAtMs,
                                                      ![w.id].updatedAt = @ + 1]
                /\ starts' = [starts EXCEPT ![k] = Returned(@, "done")]
                /\ StartTail(inv, inv.id, inv.startedAtMs, st, responses)
                /\ UNCHANGED cache
    /\ UNCHANGED <<now, mounted, submits>>
    /\ FlowFrame

\* Preview in the start dialog (part_002:664).
Preview ==
    /\ Rendered /\ st.startDialogOpen
    /\ st' = [st EXCEPT !.startDialogOpen = FALSE]
    /\ UNCHANGED <<responses, now, attemptDocs, cache, mounted, pendingUpdate, saveTimer,
                   writes, starts, submits, timer, hist>>
    /\ FlowFrame

\* ---- navigation and answers
\* goToIndex (part_002:403-407) from Prev, Next or the palette, and the effects
\* of the render it causes.
goToIndex(idx) ==
    /\ Rendered
    /\ hist.events < MaxEvents
    /\ LET next == Max(0, Min(idx, Len(questions) - 1))
           q == IF st.attemptId # <<>>
                THEN queueAttemptUpdate(Queue, st.attemptId, IndexPatch(next))
                ELSE Queue
       IN  Rerender([st EXCEPT !.currentIndex = next], responses, q, Event)
    /\ UNCHANGED <<now, attemptDocs, cache, mounted, writes, starts, submits>>
    /\ FlowFrame

AnswerFrame ==
    /\ UNCHANGED <<now, attemptDocs, cache, mounted, st, writes, starts, submits, timer>>
    /\ FlowFrame

\* handleAnswer (part_002:475-488) from the option group or the number input,
\* both disabled until started (part_002:750, 779).
handleAnswer(answer) ==
    /\ Rendered /\ st.isStarted
    /\ hist.events < MaxEvents
    /\ st.attemptId # <<>>
    /\ LET qId == CurrentQuestion(st)[1].id
           q == queueAttemptUpdate(Queue, st.attemptId,
                    (FieldPath(qId, "answer") :> Str(answer))
                    @@ (FieldPath(qId, "answered") :> (Len(answer) > 0))
                    @@ IndexPatch(st.currentIndex))
       IN  /\ responses' = [responses EXCEPT ![qId].answer = Str(answer),
                                             ![qId].answered = Len(answer) > 0]
           /\ pendingUpdate' = q.pending /\ saveTimer' = q.timer
    /\ hist' = Event
    /\ AnswerFrame

\* handleMarkForReview (part_002:490-500).
handleMarkForReview ==
    /\ Rendered /\ st.isStarted
    /\ hist.events < MaxEvents
    /\ st.attemptId # <<>>
    /\ LET qId == CurrentQuestion(st)[1].id
           nextVal == ~responses[qId].markedForReview
           q == queueAttemptUpdate(Queue, st.attemptId,
                    (FieldPath(qId, "markedForReview") :> nextVal)
                    @@ IndexPatch(st.currentIndex))
       IN  /\ responses' = [responses EXCEPT ![qId].markedForReview = nextVal]
           /\ pendingUpdate' = q.pending /\ saveTimer' = q.timer
    /\ hist' = Event
    /\ AnswerFrame

\* handleClearResponse (part_002:502-515).
handleClearResponse ==
    /\ Rendered /\ st.isStarted
    /\ hist.events < MaxEvents
    /\ st.attemptId # <<>>
    /\ LET qId == CurrentQuestion(st)[1].id
           q == queueAttemptUpdate(Queue, st.attemptId,
                    (FieldPath(qId, "answer") :> Null)
                    @@ (FieldPath(qId, "answered") :> FALSE)
                    @@ IndexPatch(st.currentIndex))
       IN  /\ responses' = [responses EXCEPT ![qId].answer = Null,
                                             ![qId].answered = FALSE]
           /\ pendingUpdate' = q.pending /\ saveTimer' = q.timer
    /\ hist' = Event
    /\ AnswerFrame

\* The heartbeat interval (part_002:389-394).
Heartbeat ==
    /\ mounted /\ st.isStarted /\ st.attemptId # <<>>
    /\ hist.events < MaxEvents
    /\ LET q == queueAttemptUpdate(Queue, st.attemptId, IndexPatch(st.currentIndex))
       IN  pendingUpdate' = q.pending /\ saveTimer' = q.timer
    /\ hist' = Event
    /\ UNCHANGED responses
    /\ AnswerFrame

\* Submit in the header opens the submit dialog; Cancel closes it
\* (part_002:704-712, 852).
SubmitDialog(open) ==
    /\ Rendered
    /\ IF open THEN st.isStarted /\ ~st.submitDialogOpen ELSE st.submitDialogOpen
    /\ st' = [st EXCEPT !.submitDialogOpen = open]
    /\ UNCHANGED <<responses, now, attemptDocs, cache, mounted, pendingUpdate, saveTimer,
                   writes, starts, submits, timer, hist>>
    /\ FlowFrame

\* ---- the debounced save
\* The timeout of queueAttemptUpdate fires (part_002:178-183).
SaveTimerFires ==
    /\ saveTimer # <<>>
    /\ writes' = Append(writes, UpdateWrite(saveTimer[1], pendingUpdate, "save", 0))
    /\ pendingUpdate' = EmptyPatch
    /\ saveTimer' = <<>>
    /\ UNCHANGED <<responses, now, attemptDocs, cache, mounted, st, starts, submits, timer,
                   hist>>
    /\ FlowFrame

\* Firestore acknowledges or rejects the oldest debounced write (part_002:183-190).
ResolveSaveWrite(ok) ==
    /\ writes # <<>> /\ writes[1].handler = "save"
    /\ writes' = Tail(writes)
    /\ attemptDocs' = IF ok THEN [attemptDocs EXCEPT ![writes[1].id] = ApplyPatch(@, writes[1].patch)]
                      ELSE attemptDocs
    /\ UNCHANGED <<responses, now, cache, mounted, st, pendingUpdate, saveTimer, starts,
                   submits, timer, hist>>
    /\ FlowFrame

\* ---- the clock
Tick(ms) ==
    /\ hist.events < MaxEvents
    /\ now' = now + ms
    /\ hist' = Event
    /\ UNCHANGED <<scoreVars, redeemVars, threadDocs, loadVars>>
    /\ UNCHANGED <<pendingUpdate, saveTimer, writes, starts, submits, timer>>

NoTimer == [on |-> FALSE, key |-> <<>>, fired |-> FALSE, deadline |-> 0]

InitHist ==
    [ visitedPatches |-> [qId \in {"q1", "q2"} |-> 0],
      finalWrites |-> [id \in {} |-> 0],
      events |-> 0, created |-> 0 ]

FlowInit ==
    /\ pendingUpdate = EmptyPatch /\ saveTimer = <<>> /\ writes = <<>>
    /\ starts = <<>> /\ submits = <<>> /\ timer = NoTimer /\ hist = InitHist

(***************************************************************************)
(* Load harness: stored tests, stored attempts and a cached id from bounded *)
(* sets.                                                                   *)
(***************************************************************************)
\* An attempt document as handleStart stores it (part_002:432-447).
StoredAttempt(student, test, educator, status, created, started, idx, resp) ==
    [ studentId |-> student, educatorId |-> educator, testId |-> test,
      status |-> status, durationSec |-> Num(60), startedAtMs |-> started,
      currentIndex |-> idx, responses |-> resp, createdAt |-> created,
      updatedAt |-> 0, result |-> <<>> ]

TwoQuestions == <<McqDoc, IntegerDoc>>

VisitedAnswered ==
    [answer |-> Str(<<"1">>), markedForReview |-> FALSE, visited |-> TRUE, answered |-> TRUE]

StoredResponses == [q1 |-> VisitedAnswered, q2 |-> InitResponse]

\* Documents that can sit under the cached id "a1".
CachedCandidates ==
    { StoredAttempt(s, t, e, status, 1, Num(1000), Num(1), StoredResponses) :
        s \in Students, t \in Tests, e \in {educatorId, "edu2"},
        status \in {"in_progress", "submitted"} }

\* A resumable attempt of this student, created after "a1".
NewerAttempt ==
    StoredAttempt(uid, testId, educatorId, "in_progress", 2, Num(1500), Num(0),
                  [qId \in {"q1", "q2"} |-> InitResponse])

LoadInit ==
    /\ testDocs \in [ own : {<<>>, <<TestDoc(Num(1), TwoQuestions)>>,
                             <<TestDoc(Num(1), <<>>)>>},
                      shared : {<<>>, <<TestDoc(Undefined, <<McqDoc>>)>>} ]
    /\ \E a1 \in CachedCandidates, has1, has2 \in BOOLEAN :
         attemptDocs = [id \in ({"a1" : x \in {y \in {1} : has1}}
                                 \cup {"a2" : x \in {y \in {1} : has2}}) |->
                           IF id = "a1" THEN a1 ELSE NewerAttempt]
    /\ cache \in {<<>>, <<"a1">>, <<"a2">>}
    /\ mounted = TRUE
    /\ st = InitState
    /\ ld = InitLoad
    /\ questions = <<>> /\ responses = NoResponses /\ scoreOut = <<>>
    /\ now = 1000
    /\ codeDocs = <<>> /\ unlockDocs = {} /\ tabs = <<>>
    /\ redemptions = 0 /\ consumed = <<>> /\ threadDocs = <<>>
    /\ FlowInit

LoadNext ==
    \/ LoadGetTestDoc
    \/ LoadGetQuestions
    \/ LoadCachedAttempt
    \/ LoadQueryAttempt
    \/ Unmount

SpecLoad == LoadInit /\ [][LoadNext]_vars

(***************************************************************************)
(* Load properties                                                         *)
(***************************************************************************)
\* The stated reasons to reject a cached attempt id.
StatedInvalid(id) ==
    \/ id \notin DOMAIN attemptDocs
    \/ attemptDocs[id].studentId # uid
    \/ attemptDocs[id].testId # testId
    \/ attemptDocs[id].educatorId # educatorId
    \/ attemptDocs[id].status # "in_progress"

\* C3: during load, a cached attempt id whose document is missing, belongs to
\* another student, test or educator, or is not in_progress is rejected: it is
\* never the active attemptId and its cache entry is removed.
C3_InvalidCachedIdRejected ==
    (ld.checked /\ StatedInvalid(ld.cachedId[1])) =>
        /\ st.attemptId # ld.cachedId
        /\ cache # ld.cachedId

\* Load ended with a submitted attempt under the cached id: the entry is gone
\* or replaced and the attempt is not the active one.
C3_Witness ==
    /\ ld.pc = "ready"
    /\ ld.cachedId = <<"a1">>
    /\ "a1" \in DOMAIN attemptDocs
    /\ attemptDocs["a1"].status = "submitted"
    /\ attemptDocs["a1"].studentId = uid
    /\ attemptDocs["a1"].testId = testId
    /\ attemptDocs["a1"].educatorId = educatorId
    /\ st.attemptId = <<"a2">>
    /\ cache = <<"a2">>

(***************************************************************************)
(* Attempt harness: one test of two questions, opened with no attempt, with *)
(* a resumable attempt or with an attempt stored without a start time.      *)
(***************************************************************************)
ClockSteps == {60000}

AnswerInputs == {<<"1">>, <<"0">>}

Unvisited == [qId \in {"q1", "q2"} |-> InitResponse]

\* What the student left behind: <<stored attempts, cached attempt id>>.
LeftBehind ==
    { <<[id \in {} |-> 0], <<>>>>,
      <<"a1" :> StoredAttempt(uid, testId, educatorId, "in_progress", 1, Num(1000),
                              Num(1), StoredResponses), <<"a1">>>>,
      <<"a1" :> StoredAttempt(uid, testId, educatorId, "in_progress", 1, Undefined,
                              Num(0), Unvisited), <<>>>> }

AttemptInit ==
    /\ testDocs = [own |-> <<TestDoc(Num(1), TwoQuestions)>>, shared |-> <<>>]
    /\ \E left \in LeftBehind : attemptDocs = left[1] /\ cache = left[2]
    /\ mounted = TRUE
    /\ st = InitState
    /\ ld = InitLoad
    /\ questions = <<>> /\ responses = NoResponses /\ scoreOut = <<>>
    /\ now = 1000
    /\ codeDocs = <<>> /\ unlockDocs = {} /\ tabs = <<>>
    /\ redemptions = 0 /\ consumed = <<>> /\ threadDocs = <<>>
    /\ FlowInit

AttemptNext ==
    \/ LoadGetTestDoc
    \/ LoadGetQuestions
    \/ LoadCachedAttempt
    \/ LoadQueryAttempt
    \/ Unmount
    \/ Preview
    \/ StartClick
    \/ \E k \in 1..MaxEvents : StartDecide(k)
    \/ \E ok \in BOOLEAN : ResolveStartWrite(ok)
    \/ \E idx \in -1..2 : goToIndex(idx)
    \/ \E answer \in AnswerInputs : handleAnswer(answer)
    \/ handleMarkForReview
    \/ handleClearResponse
    \/ Heartbeat
    \/ \E open \in BOOLEAN : SubmitDialog(open)
    \/ SubmitClick
    \/ TimeUp
    \/ \E ok \in BOOLEAN : ResolveSubmitWrite(ok)
    \/ \E k \in 1..MaxEvents : SubmitNavigate(k)
    \/ SaveTimerFires
    \/ \E ok \in BOOLEAN : ResolveSaveWrite(ok)
    \/ \E ms \in ClockSteps : Tick(ms)

SpecAttempt == AttemptInit /\ [][AttemptNext]_vars

(***************************************************************************)
(* Attempt properties                                                      *)
(***************************************************************************)
\* Delays past the end of an attempt, in milliseconds.
LateBy == {0, 1, 999, 1000, 60000}

C4_RemainingIsZero ==
    \A id \in DOMAIN attemptDocs, late \in LateBy :
        LET a == attemptDocs[id]
        IN  (Truthy(a.startedAtMs) /\ a.durationSec.n > 0) =>
               computeRemainingSeconds(a.startedAtMs, a.durationSec.n,
                   a.startedAtMs.n + a.durationSec.n * 1000 + late) = 0

\* A start called on a stored attempt that was over by then routes to submit.
C4_StartRoutesToSubmit ==
    \A k \in DOMAIN starts :
        (starts[k].pc = "fullscreen" /\ starts'[k].pc # "fullscreen" /\ starts[k].over) =>
            /\ starts'[k].pc = "routed"
            /\ Len(submits') = Len(submits) + 1
            /\ submits'[Len(submits')].isAuto
            /\ submits'[Len(submits')].id = starts[k].id
            /\ st'.isStarted = st.isStarted
            /\ st'.timerStartSeconds = st.timerStartSeconds

C4_RoutedNeverStarts ==
    \A k \in DOMAIN starts :
        (starts[k].pc = "routed" /\ Len(starts) = 1) =>
            ~st.isStarted /\ st.timerStartSeconds = 0

\* C4: for an existing attempt started at T0 with duration D, the remaining time
\* at any time >= T0 + D is 0, and Start/Resume at such a time calls the submit
\* path flagged automatic without setting isStarted or seeding the countdown.
C4_ExpiredResumeSubmits ==
    /\ [](C4_RemainingIsZero /\ C4_RoutedNeverStarts)
    /\ [][C4_StartRoutesToSubmit]_vars

\* Resume was clicked on an attempt that was over: an automatic submit runs and
\* the attempt was not started.
C4_Witness ==
    /\ Len(starts) = 1 /\ starts[1].pc = "routed"
    /\ starts[1].id = <<"a1">>
    /\ starts[1].over
    /\ now >= attemptDocs["a1"].startedAtMs.n + attemptDocs["a1"].durationSec.n * 1000
    /\ Len(submits) = 1 /\ submits[1].isAuto
    /\ ~st.isStarted

C5_VisitedStays ==
    \A qId \in DOMAIN responses \cap DOMAIN responses' :
        responses[qId].visited => responses'[qId].visited

C5_OnePatchPerQuestion ==
    \A qId \in DOMAIN hist.visitedPatches : hist.visitedPatches[qId] <= 1

\* C5: in a started attempt a question's visited flag goes from false to true
\* at most once and never back, and at most one responses.<id>.visited patch is
\* enqueued per question, whatever the navigation.
C5_VisitedOnce ==
    /\ [](C5_OnePatchPerQuestion)
    /\ [][C5_VisitedStays]_vars

\* The resumed attempt had q1 visited; q2 was visited after Resume and the
\* student went back to q1: no patch for q1, one for q2.
C5_Witness ==
    /\ st.isStarted /\ st.attemptId = <<"a1">>
    /\ st.currentIndex = 0
    /\ responses["q1"].visited /\ responses["q2"].visited
    /\ hist.visitedPatches["q1"] = 0 /\ hist.visitedPatches["q2"] = 1

\* C10: for every interleaving of user submit and timer-expiry submit, at most
\* one write setting status to submitted is issued for an attempt.
C10_SubmittedWrittenOnce ==
    \A id \in DOMAIN hist.finalWrites : hist.finalWrites[id] <= 1

C11_SubmittedStep ==
    \A id \in DOMAIN attemptDocs :
        attemptDocs[id].status = "submitted" => attemptDocs'[id] = attemptDocs[id]

\* C11: once the remote attempt document has status submitted, no later client
\* write (autosave, heartbeat, navigation patch or repeated submit) changes any
\* of its fields.
C11_SubmittedIsImmutable == [][C11_SubmittedStep]_vars

\* The in_progress attempts of this student for this test and educator.
InProgressAttempts ==
    {id \in DOMAIN attemptDocs :
        /\ attemptDocs[id].studentId = uid
        /\ attemptDocs[id].testId = testId
        /\ attemptDocs[id].educatorId = educatorId
        /\ attemptDocs[id].status = "in_progress"}

\* C12: whatever the sequence of Start actions on a loaded test, one attempt
\* document at most is created by this component and at most one in_progress
\* attempt exists for the student, test and educator.
C12_OneAttemptCreated ==
    /\ hist.created <= 1
    /\ Cardinality(InProgressAttempts) <= 1

\* A call of handleSubmit made while patches are buffered cancels the debounce
\* timer, empties the buffer and issues the buffered patches as one update,
\* and no finalizing write yet.
C13_FlushAtSubmit ==
    (Len(submits') = Len(submits) + 1 /\ DOMAIN pendingUpdate # {}) =>
        LET k == Len(submits')
        IN  /\ saveTimer' = <<>>
            /\ pendingUpdate' = EmptyPatch
            /\ Len(writes') = Len(writes) + 1
            /\ writes'[Len(writes')].kind = "update"
            /\ writes'[Len(writes')].handler = "submit"
            /\ writes'[Len(writes')].k = k
            /\ writes'[Len(writes')].id = submits'[k].id[1]
            /\ writes'[Len(writes')].patch = pendingUpdate
            /\ hist'.finalWrites = hist.finalWrites

\* The finalizing write of such a call is issued in the step that applies its
\* flush to the stored attempt.
C13_FinalAfterFlush ==
    \A k \in DOMAIN submits :
        (submits[k].buffered /\ submits[k].pc # "finalizing"
            /\ submits'[k].pc = "finalizing") =>
                /\ submits[k].pc = "flushing"
                /\ writes[1].kind = "update" /\ writes[1].handler = "submit"
                /\ writes[1].k = k
                /\ attemptDocs'[writes[1].id] = ApplyPatch(attemptDocs[writes[1].id],
                                                           writes[1].patch)

\* Among the writes in flight, the flush of a call is never behind that call's
\* finalizing write, and a call still flushing has issued no finalizing write.
C13_FlushOrder ==
    \A i, j \in DOMAIN writes :
        (writes[i].handler = "submit" /\ writes[j].handler = "submit"
            /\ writes[i].k = writes[j].k /\ writes[i].kind = "final") =>
                /\ writes[j].kind = "update" => j < i
                /\ submits[writes[i].k].pc = "finalizing"

\* C13: when submit is invoked while patches are buffered, the debounce timer
\* is cancelled, the buffer is emptied and the buffered patches are written to
\* the remote attempt before the write that sets status to submitted; none of
\* them is written after it.
C13_FlushBeforeFinal ==
    /\ [](C13_FlushOrder)
    /\ [][C13_FlushAtSubmit /\ C13_FinalAfterFlush]_vars

\* Submit was clicked with the visited patch of q2 buffered: the flush and the
\* finalizing write were the only writes, and q2 is stored as visited in the
\* submitted attempt.
C13_Witness ==
    /\ Len(submits) = 1 /\ submits[1].buffered /\ ~submits[1].isAuto
    /\ submits[1].pc = "exiting" /\ submits[1].id = <<"a1">>
    /\ attemptDocs["a1"].status = "submitted"
    /\ attemptDocs["a1"].updatedAt = 2
    /\ attemptDocs["a1"].responses["q2"].visited
    /\ pendingUpdate = EmptyPatch /\ saveTimer = <<>>

\* The step in which a write of submit call k is rejected leaves the stored
\* attempts, the local responses, the cache entry and the page as they were.
C14_FailureStep ==
    \A k \in DOMAIN submits :
        (submits[k].pc \in {"flushing", "finalizing"} /\ submits'[k].pc = "failed") =>
            /\ attemptDocs' = attemptDocs
            /\ responses' = responses
            /\ cache' = cache
            /\ mounted' = mounted
            /\ st'.isStarted = st.isStarted
            /\ st'.attemptId = st.attemptId

\* After the only submit call has failed the stored attempt is in_progress.
C14_StillInProgress ==
    (Len(submits) = 1 /\ submits[1].pc = "failed") =>
        attemptDocs[submits[1].id[1]].status = "in_progress"

\* C14: if the flush or the finalizing write of submit fails, the remote
\* attempt keeps status in_progress, the local responses are not rolled back,
\* the resume-cache entry is kept and no navigation to results occurs; a later
\* submit can still succeed (C14_Witness).
C14_FailedSubmitKeepsAttempt ==
    /\ [](C14_StillInProgress)
    /\ [][C14_FailureStep]_vars

\* A first submit failed, a later one stored the attempt as submitted.
C14_Witness ==
    /\ Len(submits) = 2
    /\ submits[1].pc = "failed" /\ submits[2].pc = "exiting"
    /\ submits[1].id = submits[2].id
    /\ attemptDocs[submits[2].id[1]].status = "submitted"
    /\ attemptDocs[submits[2].id[1]].updatedAt = 1
    /\ cache = <<>>

\* The step in which a debounced write is rejected puts the patches it carried
\* back: each of its fields is buffered or in a write in flight afterwards.
C15_FailedSaveStep ==
    (writes # <<>> /\ writes[1].handler = "save" /\ writes' = Tail(writes)
        /\ attemptDocs' = attemptDocs) =>
            \A path \in DOMAIN writes[1].patch :
                \/ path \in DOMAIN pendingUpdate'
                \/ \E i \in DOMAIN writes' : path \in DOMAIN writes'[i].patch

\* C15: the field patches of a failed debounced autosave write are retried on
\* the next debounce cycle, so that they are included in a later remote write.
C15_FailedSaveRetried == [][C15_FailedSaveStep]_vars

(***************************************************************************)
(* Debounce harness: calls of queueAttemptUpdate on one attempt at chosen   *)
(* times, and the timeout of part_002:178-191.                              *)
(***************************************************************************)
\* The delay of the timeout (part_002:191), in milliseconds.
DebounceMs == 650

\* Calls of queueAttemptUpdate and clock steps a run may hold.
MaxQueueEvents == 5

QueueClockSteps == {100, 649, 650}

\* Patches as the handlers build them (part_002:384, 406, 483-487, 499).
QueuePatches ==
    { (FieldPath("q1", "answer") :> Str(<<"1">>)) @@ (FieldPath("q1", "answered") :> TRUE)
          @@ IndexPatch(0),
      (FieldPath("q1", "answer") :> Str(<<"0">>)) @@ (FieldPath("q1", "answered") :> TRUE)
          @@ IndexPatch(0),
      (FieldPath("q2", "markedForReview") :> TRUE) @@ IndexPatch(1),
      IndexPatch(1) }

QueueInit ==
    /\ pendingUpdate = EmptyPatch /\ saveTimer = <<>> /\ writes = <<>>
    /\ starts = <<>> /\ submits = <<>> /\ timer = NoTimer
    /\ hist = [events |-> 0, enq |-> <<>>, due |-> 0]
    /\ now \in {0, 1000}
    /\ testDocs = [own |-> <<>>, shared |-> <<>>]
    /\ attemptDocs = [id \in {} |-> 0] /\ cache = <<"a1">>
    /\ mounted = TRUE
    /\ st = [InitState EXCEPT !.attemptId = <<"a1">>]
    /\ ld = InitLoad
    /\ questions = <<>> /\ responses = NoResponses /\ scoreOut = <<>>
    /\ codeDocs = <<>> /\ unlockDocs = {} /\ tabs = <<>>
    /\ redemptions = 0 /\ consumed = <<>> /\ threadDocs = <<>>

QueueFrame ==
    UNCHANGED <<scoreVars, redeemVars, threadDocs, loadVars, starts, submits, timer>>

\* A handler calls queueAttemptUpdate(patch) at time now; hist.enq keeps the
\* call, its time and the number of writes issued before it.
QueueEnqueue(patch) ==
    /\ hist.events < MaxQueueEvents
    /\ LET q == queueAttemptUpdate(Queue, st.attemptId, patch)
       IN  pendingUpdate' = q.pending /\ saveTimer' = q.timer
    /\ hist' = [hist EXCEPT !.events = @ + 1,
                            !.enq = Append(@, [patch |-> patch, at |-> now,
                                               gen |-> Len(writes)]),
                            !.due = now + DebounceMs]
    /\ UNCHANGED <<now, writes>>
    /\ QueueFrame

\* The timeout fires, no earlier than its delay after the last call
\* (part_002:177-191).
QueueTimerFires ==
    /\ now >= hist.due
    /\ SaveTimerFires

QueueTick(ms) ==
    /\ hist.events < MaxQueueEvents
    /\ now' = now + ms
    /\ hist' = [hist EXCEPT !.events = @ + 1]
    /\ UNCHANGED <<pendingUpdate, saveTimer, writes>>
    /\ QueueFrame

QueueNext ==
    \/ \E patch \in QueuePatches : QueueEnqueue(patch)
    \/ QueueTimerFires
    \/ \E ms \in QueueClockSteps : QueueTick(ms)

SpecQueue == QueueInit /\ [][QueueNext]_vars

(***************************************************************************)
(* Debounce properties                                                     *)
(***************************************************************************)
\* The calls made when n writes had been issued, in arrival order.
CallsOfGen(n) == SelectSeq(hist.enq, LAMBDA e : e.gen = n)

\* The stated payload of a sequence of calls: per field, the value of the last
\* call that carries the field.
StatedMerge(calls) ==
    LET paths == UNION {DOMAIN calls[i].patch : i \in DOMAIN calls}
        last(path) == CHOOSE i \in DOMAIN calls :
                          /\ path \in DOMAIN calls[i].patch
                          /\ \A j \in DOMAIN calls : path \in DOMAIN calls[j].patch => j <= i
    IN  [path \in paths |-> calls[last(path)].patch[path]]

\* Each write issued carries the merge of the calls since the write before it
\* and the update timestamp.
C16_PayloadIsMerge ==
    \A n \in DOMAIN writes :
        /\ CallsOfGen(n - 1) # <<>>
        /\ writes[n].kind = "update"
        /\ writes[n].patch = StatedMerge(CallsOfGen(n - 1))
        /\ writes[n].updatedAt = ServerTimestamp

\* The calls not yet written are buffered behind one armed timeout, and
\* nothing else is.
C16_OneWriteToCome ==
    LET waiting == CallsOfGen(Len(writes))
    IN  /\ (waiting # <<>>) <=> (saveTimer # <<>>)
        /\ pendingUpdate = IF waiting = <<>> THEN EmptyPatch ELSE StatedMerge(waiting)
        /\ \A i \in DOMAIN hist.enq : hist.enq[i].gen <= Len(writes)

\* Calls less than the debounce delay apart go into the same write.
C16_WindowCoalesces ==
    \A i \in DOMAIN hist.enq :
        (i > 1 /\ hist.enq[i].at - hist.enq[i - 1].at < DebounceMs) =>
            hist.enq[i].gen = hist.enq[i - 1].gen

StatedBlank ==
    [answer |-> Null, markedForReview |-> FALSE, visited |-> FALSE, answered |-> FALSE]

\* A start without an attempt sends a document that is in_progress, started
\* now, with one blank response per loaded question.
C17_DocumentSent ==
    \A k \in DOMAIN starts :
        (starts[k].pc = "fullscreen" /\ starts'[k].pc = "adding") =>
            /\ starts[k].id = <<>>
            /\ Len(writes') = Len(writes) + 1
            /\ LET w == writes'[Len(writes')]
               IN  /\ w.kind = "add" /\ w.doc # <<>>
                   /\ w.doc[1].status = "in_progress"
                   /\ w.doc[1].startedAtMs = Num(now)
                   /\ w.doc[1].studentId = uid /\ w.doc[1].testId = testId
                   /\ w.doc[1].educatorId = educatorId
                   /\ DOMAIN w.doc[1].responses = {questions[i].id : i \in DOMAIN questions}
                   /\ \A qId \in DOMAIN w.doc[1].responses :
                          w.doc[1].responses[qId] = StatedBlank

\* The acknowledged creation stores that document under a new id, which
\* becomes the active attemptId and the cache entry; the attempt is started.
C17_Created ==
    \A k \in DOMAIN starts :
        (starts[k].pc = "adding" /\ starts'[k].pc = "done") =>
            \E id \in DOMAIN attemptDocs' \ DOMAIN attemptDocs :
                /\ DOMAIN attemptDocs' = DOMAIN attemptDocs \cup {id}
                /\ attemptDocs'[id] = writes[1].doc[1]
                /\ cache' = <<id>>
                /\ mounted => (st'.attemptId = <<id>> /\ st'.isStarted)

\* The rejected creation stores nothing, writes no cache entry and starts
\* nothing.
C17_CreationFailed ==
    \A k \in DOMAIN starts :
        (starts[k].pc = "adding" /\ starts'[k].pc = "failed") =>
            /\ attemptDocs' = attemptDocs
            /\ cache' = cache
            /\ st' = st

\* C17: Start with no existing attempt creates a document with status
\* in_progress, a start timestamp taken at that moment and one response
\* {answer: null, markedForReview: false, visited: false, answered: false} per
\* loaded question; its id becomes the active attemptId and the cache entry;
\* a failed creation starts nothing and writes no cache entry.
C17_StartCreatesAttempt ==
    [][C17_DocumentSent /\ C17_Created /\ C17_CreationFailed]_vars

\* One Start, acknowledged: the attempt "n1" is stored, active, cached and
\* started.
C17_Witness ==
    /\ Len(starts) = 1 /\ starts[1].pc = "done"
    /\ hist.created = 1
    /\ DOMAIN attemptDocs = {"n1"}
    /\ attemptDocs["n1"].status = "in_progress"
    /\ attemptDocs["n1"].updatedAt = 0
    /\ DOMAIN attemptDocs["n1"].responses = {"q1", "q2"}
    /\ st.attemptId = <<"n1">> /\ cache = <<"n1">>
    /\ st.isStarted /\ ~st.startDialogOpen

(***************************************************************************)
(* Load properties: sources, errors, resume discovery                      *)
(***************************************************************************)
\* The stated winning source: the educator's document if it exists, else the
\* shared one; <<>> if neither exists.
StatedWinner == IF testDocs.own # <<>> THEN testDocs.own ELSE testDocs.shared

\* The shared document is read only when the educator's one is missing, and
\* meta and questions come from the winning source.
C18_WinnerSupplies ==
    /\ ld.pc = "shared" => testDocs.own = <<>>
    /\ ld.pc \in {"questions", "cached", "query", "ready"} =>
          /\ StatedWinner # <<>>
          /\ ld.source = (IF testDocs.own # <<>> THEN "own" ELSE "shared")
          /\ ld.meta = <<[durationMinutes |-> safeNumber(StatedWinner[1].durationMinutes, 60)]>>
    /\ ld.pc \in {"cached", "query", "ready"} =>
          /\ Len(questions) = Len(StatedWinner[1].questions)
          /\ Len(questions) > 0
          /\ \A i \in DOMAIN questions :
                 questions[i] = mapQuestion(QuestionId(i), StatedWinner[1].questions[i])
          /\ st.testMeta = ld.meta

\* The two error states, and nothing looked up in them.
C18_ErrorStates ==
    /\ ld.pc = "error" =>
          /\ st.loadError \in {"Test not found", "No questions found in this test"}
          /\ st.loadError = "Test not found" <=> StatedWinner = <<>>
          /\ st.loadError = "No questions found in this test" <=>
                 (StatedWinner # <<>> /\ Len(StatedWinner[1].questions) = 0)
          /\ ~ld.checked /\ ld.cachedId = <<>>
          /\ st.attemptId = <<>> /\ ~st.isStarted
          /\ starts = <<>> /\ writes = <<>>
    /\ (StatedWinner = <<>> \/ Len(StatedWinner[1].questions) = 0) =>
          ld.pc \notin {"cached", "query", "ready"}

\* Nothing is read or written once load has ended in an error.
C18_ErrorIsFinal ==
    ld.pc = "error" => UNCHANGED <<ld, st, cache, attemptDocs>>

\* C18: load tries the educator's test document first and the shared one
\* second; the first that exists supplies meta and questions and the second is
\* not consulted; load ends with "Test not found" iff neither exists and with
\* "No questions found in this test" iff the winning source has no questions,
\* and in an error state no attempt is looked up or created.
C18_SourcesAndErrors ==
    /\ [](C18_WinnerSupplies /\ C18_ErrorStates)
    /\ [][C18_ErrorIsFinal]_vars

\* The educator's document is missing: the shared one supplied the meta (with
\* the default duration) and its single question.
C18_Witness ==
    /\ ld.pc = "ready" /\ ld.source = "shared"
    /\ testDocs.own = <<>> /\ testDocs.shared # <<>>
    /\ st.testMeta = <<[durationMinutes |-> 60]>>
    /\ Len(questions) = 1

\* The attempt the stated rule resumes: the cached one if it is valid, else
\* the most recently created in_progress one; <<>> if there is none.
StatedResume ==
    IF ld.cachedId # <<>> /\ ~StatedInvalid(ld.cachedId[1]) THEN ld.cachedId
    ELSE IF InProgressAttempts = {} THEN <<>>
    ELSE <<CHOOSE id \in InProgressAttempts :
               \A o \in InProgressAttempts :
                   attemptDocs[o].createdAt <= attemptDocs[id].createdAt>>

\* C19: isStarted is false in every state of load and after it, whether or not
\* an attempt was found; if an in_progress attempt of the student, test and
\* educator exists, load makes one the active attempt (a valid cached id
\* first, else the most recently created) and restores its responses, current
\* index, start time and duration.
C19_LoadRestoresNotStarts ==
    /\ ~st.isStarted
    /\ ld.pc = "ready" =>
          /\ st.attemptId = StatedResume
          /\ ~st.loading /\ st.startDialogOpen
          /\ (InProgressAttempts # {}) => (st.attemptId # <<>>)
          /\ st.attemptId # <<>> =>
                LET a == attemptDocs[st.attemptId[1]]
                IN  /\ st.attemptId[1] \in InProgressAttempts
                    /\ \A i \in DOMAIN questions :
                           responses[questions[i].id] =
                               IF questions[i].id \in DOMAIN a.responses
                               THEN a.responses[questions[i].id] ELSE StatedBlank
                    /\ st.currentIndex = a.currentIndex.n
                    /\ st.attemptStartedAtMs = a.startedAtMs
                    /\ st.durationSec = a.durationSec.n

\* Both attempts are resumable and "a1" is cached: load chose "a1" although
\* "a2" is newer, restored its answer and index, and did not start it.
C19_Witness ==
    /\ ld.pc = "ready" /\ ld.cachedId = <<"a1">>
    /\ DOMAIN attemptDocs = {"a1", "a2"}
    /\ st.attemptId = <<"a1">>
    /\ st.currentIndex = 1
    /\ Len(questions) = 2
    /\ responses["q1"].answered /\ responses["q1"].answer = Str(<<"1">>)
    /\ st.attemptStartedAtMs = Num(1000) /\ st.durationSec = 60
    /\ ~st.isStarted

\* C20: in every state of a successfully loaded attempt the current question
\* index lies in [0, questionCount - 1], the index restored from a resumed
\* attempt included.
C20_IndexInRange ==
    ld.pc = "ready" => (st.currentIndex >= 0 /\ st.currentIndex < Len(questions))

(***************************************************************************)
(* TenantProvider: src/contexts/TenantProvider.tsx (with the security       *)
(* effect) and the copy in part_001:1-87 (without it)                      *)
(***************************************************************************)
\* The two copies of the provider found in the source.
ProviderVersions == {"checked", "unchecked"}

\* The slug of the tenant domain, and another tenant's.
Slug == "acme"
OtherSlug == "zeta"

\* The educators document the query matches.
EducatorDoc == [id |-> educatorId, slug |-> Slug]

\* loadTenant after `await getDocs(q)` without the tests of `mounted`.
loadTenantAfterQueryUnguarded(version, outcome, isMounted, s) ==
    IF outcome = "match"
    THEN [s EXCEPT !.tenant = <<[educatorId |-> EducatorDoc.id,
                                 tenantSlug |-> EducatorDoc.slug]>>,
                   !.loading = FALSE]
    ELSE [s EXCEPT !.tenant = <<>>, !.loading = FALSE]

\* loadTenant after `await getDocs(q)` (TenantProvider.tsx:49-71,
\* part_001:47-63): outcome is "match", "empty" or "error"; a setter called
\* after the cleanup is applied like any other.
loadTenantAfterQuery(version, outcome, isMounted, s) ==
    LET found == [s EXCEPT !.tenant = <<[educatorId |-> EducatorDoc.id,
                                         tenantSlug |-> EducatorDoc.slug]>>]
        none == [s EXCEPT !.tenant = <<>>]
        finally(x) == IF isMounted THEN [x EXCEPT !.loading = FALSE] ELSE x
    IN  IF version = "checked"
        THEN IF outcome = "error" THEN finally(none)
             ELSE IF ~isMounted THEN s
             ELSE IF outcome = "match" THEN finally(found)
             ELSE finally(none)
        ELSE IF outcome = "match" /\ isMounted THEN finally(found)
             ELSE finally(s)

\* isAuthorized of the security effect (TenantProvider.tsx:86-92).
isAuthorized(profile, slug) ==
    slug \in profile.enrolledTenants \/ profile.tenantSlug = <<slug>>

\* The security effect (TenantProvider.tsx:79-107); part_001:70-71 has none.
SecurityEffect(version, s) ==
    IF version = "unchecked" THEN s
    ELSE IF s.profile = <<>> \/ s.tenantSlug = <<>> THEN s
    ELSE IF s.profile[1].role # "STUDENT" THEN s
    ELSE IF isAuthorized(s.profile[1], s.tenantSlug[1]) THEN s
    ELSE [s EXCEPT !.signOutCalls = @ + 1]

\* The profiles useAuth() can hand over.
Profiles ==
    [ role : {"STUDENT", "EDUCATOR", "ADMIN"},
      enrolledTenants : {{}, {Slug}, {OtherSlug}},
      tenantSlug : {<<>>, <<Slug>>, <<OtherSlug>>} ]

\* Everything but st, ld and mounted stays as it is.
ViewFrame ==
    UNCHANGED <<scoreVars, now, redeemVars, threadDocs, testDocs, attemptDocs, cache, flowVars>>

TenantInit ==
    /\ \E version \in ProviderVersions, slug \in {<<>>, <<Slug>>} :
          st = [version |-> version, tenantSlug |-> slug, tenant |-> <<>>,
                loading |-> TRUE, profile |-> <<>>, signOutCalls |-> 0]
    /\ ld = [pc |-> "start", outcome |-> "none"]
    /\ mounted = TRUE
    /\ questions = <<>> /\ responses = NoResponses /\ scoreOut = <<>>
    /\ now = 0
    /\ codeDocs = <<>> /\ unlockDocs = {} /\ tabs = <<>>
    /\ redemptions = 0 /\ consumed = <<>> /\ threadDocs = <<>>
    /\ testDocs = [own |-> <<>>, shared |-> <<>>]
    /\ attemptDocs = [id \in {} |-> 0] /\ cache = <<>>
    /\ NoFlow

\* The load effect runs: loadTenant up to its await (TenantProvider.tsx:38-49).
TenantLoadStart ==
    /\ ld.pc = "start" /\ mounted
    /\ IF st.tenantSlug = <<>>
       THEN /\ st' = [st EXCEPT !.tenant = <<>>, !.loading = FALSE]
            /\ ld' = [ld EXCEPT !.pc = "done"]
       ELSE /\ st' = [st EXCEPT !.tenant = <<>>, !.loading = TRUE]
            /\ ld' = [ld EXCEPT !.pc = "query"]
    /\ UNCHANGED mounted
    /\ ViewFrame

\* getDocs settles with a matching educator, with no match or with an error.
TenantQueryCompletes(outcome) ==
    /\ ld.pc = "query"
    /\ st' = loadTenantAfterQuery(st.version, outcome, mounted, st)
    /\ ld' = [pc |-> "done", outcome |-> outcome]
    /\ UNCHANGED mounted
    /\ ViewFrame

\* The cleanup of the load effect (TenantProvider.tsx:75).
TenantUnmount ==
    /\ mounted
    /\ mounted' = FALSE
    /\ UNCHANGED <<st, ld>>
    /\ ViewFrame

\* useAuth() delivers a profile; the security effect runs on it.
ProfileArrives(profile) ==
    /\ mounted /\ st.profile = <<>> /\ st.signOutCalls = 0
    /\ st' = SecurityEffect(st.version, [st EXCEPT !.profile = <<profile>>])
    /\ UNCHANGED <<ld, mounted>>
    /\ ViewFrame

\* The principal signs out or is signed out: the profile is gone.
ProfileLeaves ==
    /\ mounted /\ st.profile # <<>>
    /\ st' = [st EXCEPT !.profile = <<>>]
    /\ UNCHANGED <<ld, mounted>>
    /\ ViewFrame

TenantNext ==
    \/ TenantLoadStart
    \/ \E outcome \in {"match", "empty", "error"} : TenantQueryCompletes(outcome)
    \/ TenantUnmount
    \/ \E profile \in Profiles : ProfileArrives(profile)
    \/ ProfileLeaves

SpecTenant == TenantInit /\ [][TenantNext]_vars

(***************************************************************************)
(* TenantProvider properties                                               *)
(***************************************************************************)
\* The query completes: mounted, loading ends and tenant is set iff it
\* matched; after the cleanup, neither tenant nor loading changes.
C21_Completion ==
    (ld.pc = "query" /\ ld'.pc = "done") =>
        IF mounted
        THEN /\ ~st'.loading
             /\ (st'.tenant # <<>>) <=> (ld'.outcome = "match")
             /\ st'.tenant # <<>> => st'.tenant[1].educatorId = EducatorDoc.id
        ELSE st'.tenant = st.tenant /\ st'.loading = st.loading

\* Without a tenant slug there is no query and loading has ended.
C21_NoSlug ==
    st.tenantSlug = <<>> =>
        /\ ld.pc \in {"start", "done"}
        /\ ld.pc = "done" => (~st.loading /\ st.tenant = <<>> /\ ld.outcome = "none")

\* C21: when the tenant query completes while the provider is mounted, loading
\* becomes false and tenant is non-null iff the query matched an educator;
\* when the provider was unmounted before, the completion updates neither;
\* with no tenant slug loading becomes false without any query.
C21_TenantLoad ==
    /\ [](C21_NoSlug)
    /\ [][C21_Completion]_vars

\* The provider was unmounted with the query in flight, the query then
\* matched: tenant is still null and loading still true.
C21_Witness ==
    /\ ~mounted /\ ld.pc = "done" /\ ld.outcome = "match"
    /\ st.tenant = <<>> /\ st.loading

\* C25: on a tenant domain a signed-in STUDENT whose enrolledTenants lacks the
\* slug and whose legacy tenantSlug differs from it is signed out by the
\* tenant provider; an enrolled student and any other principal never is.
C25_UnenrolledStudentSignedOut ==
    /\ (st.profile # <<>> /\ st.tenantSlug # <<>>
          /\ st.profile[1].role = "STUDENT"
          /\ st.tenantSlug[1] \notin st.profile[1].enrolledTenants
          /\ st.profile[1].tenantSlug # st.tenantSlug) => st.signOutCalls > 0
    /\ st.signOutCalls > 0 => st.tenantSlug # <<>>

(***************************************************************************)
(* StudentRankings (src/pages/student/StudentRankings.tsx)                 *)
(***************************************************************************)
\* Number.MAX_SAFE_INTEGER, carried as the largest integer of the model's
\* arithmetic; every stored time is below it.
MAX_SAFE_INTEGER == 2 * (2^30 - 1) + 1

\* pct (StudentRankings.tsx:61-64): Math.round(score / maxScore * 100) kept
\* within 0..100; Math.round(x) is floor(x + 1/2).
pct(score, maxScore) ==
    IF maxScore <= 0 THEN 0
    ELSE Max(0, Min(100, (200 * score + maxScore) \div (2 * maxScore)))

\* normalizeAccuracyPercent (StudentRankings.tsx:66-71) of a stored fraction
\* num/den: values up to 1.01 are fractions of one, larger ones percentages.
normalizeAccuracyPercent(val) ==
    LET asPercent == IF 100 * val.num <= 101 * val.den
                     THEN (200 * val.num + val.den) \div (2 * val.den)
                     ELSE (2 * val.num + val.den) \div (2 * val.den)
    IN  Max(0, Min(100, asPercent))

\* fallbackName (StudentRankings.tsx:73-76): a label made from the uid.
fallbackName(id) == <<"Student", id>>

\* The users documents hydrateProfiles reads: s1 has a display name, s2 has
\* no document.
UserDocs == [id \in {"s1"} |-> <<"Asha">>]

\* hydrateProfiles (StudentRankings.tsx:123-143).
hydrateProfiles(studentIds) ==
    [id \in studentIds |->
        IF id \in DOMAIN UserDocs THEN UserDocs[id] ELSE fallbackName(id)]

\* The values pickBestAttemptsPerStudent and the sorts compare.
RankKey(a) ==
    LET score == safeNumber(a.score, 0)
        maxScore == safeNumber(a.maxScore, 0)
    IN  [percentScore |-> pct(score, maxScore), score |-> score,
         time |-> safeNumber(a.timeTakenSec, MAX_SAFE_INTEGER)]

\* The replacement test with the percentage left out.
ReplacesByScoreOnly(a, current) ==
    \/ RankKey(a).score > RankKey(current).score
    \/ /\ RankKey(a).score = RankKey(current).score
       /\ RankKey(a).time < RankKey(current).time

\* The three tests that replace best[uid] (StudentRankings.tsx:115-117).
Replaces(a, current) ==
    LET n == RankKey(a)
        c == RankKey(current)
    IN  \/ n.percentScore > c.percentScore
        \/ n.percentScore = c.percentScore /\ n.score > c.score
        \/ n.percentScore = c.percentScore /\ n.score = c.score /\ n.time < c.time

RECURSIVE PickBestLoop(_, _, _)
PickBestLoop(best, attempts, i) ==
    IF i > Len(attempts) THEN best
    ELSE LET a == attempts[i]
             at == {k \in 1..Len(best) : best[k].studentId = a.studentId}
         IN  IF a.studentId = "" THEN PickBestLoop(best, attempts, i + 1)
             ELSE IF at = {}
             THEN PickBestLoop(Append(best, [studentId |-> a.studentId,
                                             attempt |-> a]), attempts, i + 1)
             ELSE LET k == CHOOSE k \in at : TRUE
                  IN  IF Replaces(a, best[k].attempt)
                      THEN PickBestLoop([best EXCEPT ![k].attempt = a],
                                        attempts, i + 1)
                      ELSE PickBestLoop(best, attempts, i + 1)

\* pickBestAttemptsPerStudent (StudentRankings.tsx:91-121): the entries of
\* `best` in insertion order.
pickBestAttemptsPerStudent(attempts) == PickBestLoop(<<>>, attempts, 1)

\* The comparator of both sorts (StudentRankings.tsx:200-204, 266-270).
RankCompare(a, b) ==
    IF b.percentScore # a.percentScore THEN b.percentScore - a.percentScore
    ELSE IF b.score # a.score THEN b.score - a.score
    ELSE a.time - b.time

\* Array.prototype.sort with RankCompare, which is stable.
RECURSIVE RankInsert(_, _)
RankInsert(sorted, x) ==
    IF sorted = <<>> THEN <<x>>
    ELSE IF RankCompare(Head(sorted), x) <= 0
    THEN <<Head(sorted)>> \o RankInsert(Tail(sorted), x)
    ELSE <<x>> \o sorted

RECURSIVE RankSort(_)
RankSort(rows) ==
    IF rows = <<>> THEN <<>>
    ELSE RankInsert(RankSort(SubSeq(rows, 1, Len(rows) - 1)), rows[Len(rows)])

\* Rows kept for display (StudentRankings.tsx:272).
TopRows == 50

\* The snapshot callback up to `await hydrateProfiles` (StudentRankings.tsx:
\* 253-273).
RankTop(attempts) ==
    LET best == pickBestAttemptsPerStudent(attempts)
        mapped == [k \in 1..Len(best) |->
                     LET key == RankKey(best[k].attempt)
                         accuracy == best[k].attempt.accuracy
                     IN  [studentId |-> best[k].studentId,
                          percentScore |-> key.percentScore,
                          score |-> key.score,
                          maxScore |-> safeNumber(best[k].attempt.maxScore, 0),
                          time |-> key.time,
                          accuracy |-> IF accuracy # <<>>
                                       THEN normalizeAccuracyPercent(accuracy[1])
                                       ELSE key.percentScore]]
        sorted == RankSort(mapped)
    IN  SubSeq(sorted, 1, Min(TopRows, Len(sorted)))

\* The rows built after the hydration (StudentRankings.tsx:277-292).
RankRows(top, profiles, prevRankMap) ==
    [idx \in 1..Len(top) |->
        LET x == top[idx]
            prevRank == IF x.studentId \in DOMAIN prevRankMap
                        THEN prevRankMap[x.studentId] ELSE 0
        IN  [studentId |-> x.studentId,
             name |-> profiles[x.studentId],
             rank |-> idx,
             score |-> x.score,
             accuracy |-> x.accuracy,
             rankChange |-> IF prevRank # 0 THEN prevRank - idx ELSE 0,
             isCurrentUser |-> x.studentId = uid]]

\* loadPrev's rank map (StudentRankings.tsx:190-208).
PrevRanks(attempts) ==
    LET best == pickBestAttemptsPerStudent(attempts)
        sorted == RankSort([k \in 1..Len(best) |->
                               [studentId |-> best[k].studentId]
                                  @@ RankKey(best[k].attempt)])
    IN  [id \in {sorted[k].studentId : k \in 1..Len(sorted)} |->
            CHOOSE k \in 1..Len(sorted) : sorted[k].studentId = id]

\* The longest snapshot, the snapshots of a run and the longest result of the
\* previous window's query.
MaxSnapshotLen == 3
MaxSnapshots == 2
MaxPrevLen == 1

\* Submitted attempts of the educator's students; one has no studentId.
RankAttempt(sid, score, maxScore, time, accuracy) ==
    [studentId |-> sid, score |-> score, maxScore |-> maxScore,
     timeTakenSec |-> time, accuracy |-> accuracy]

RankPool ==
    { RankAttempt("s1", Num(1), Num(2), Num(20), <<>>),
      RankAttempt("s1", Num(2), Num(4), Num(10), <<Ratio(1, 2)>>),
      RankAttempt("s1", Num(2), Num(4), Num(5), <<>>),
      RankAttempt("s2", Num(2), Num(4), Undefined, <<>>),
      RankAttempt("s2", Num(1), Num(1), Num(30), <<Ratio(80, 1)>>),
      RankAttempt("", Num(4), Num(4), Num(1), <<>>) }

\* Snapshots: the documents in any order of arrival.
RankSnapshots ==
    { s \in UNION { [1..n -> RankPool] : n \in 0..MaxSnapshotLen } :
        \A i, j \in DOMAIN s : i # j => s[i] # s[j] }

\* What the query of the previous window may return.
PrevSnapshots == { s \in RankSnapshots : Len(s) <= MaxPrevLen }

SeqRange(s) == { s[i] : i \in DOMAIN s }

\* Everything but st, ld, mounted and hist stays as it is.
RankFrame ==
    UNCHANGED <<scoreVars, now, redeemVars, threadDocs, testDocs, attemptDocs, cache,
                pendingUpdate, saveTimer, writes, starts, submits, timer>>

\* The page is mounted while useAuth() is loading: both effects have run with
\* canLoad false. st.live is the live effect's current subscription (0: none),
\* ld.handlers the snapshot callbacks waiting for hydrateProfiles.
RankInit ==
    /\ st = [canLoad |-> FALSE, loading |-> TRUE, leaderboard |-> <<>>,
             prevRankMap |-> <<>>, live |-> 0, runs |-> 0]
    /\ ld = [prev |-> "idle", handlers |-> {}]
    /\ mounted = TRUE
    /\ hist = [snapshots |-> 0, source |-> {}]
    /\ questions = <<>> /\ responses = NoResponses /\ scoreOut = <<>>
    /\ now = 0
    /\ codeDocs = <<>> /\ unlockDocs = {} /\ tabs = <<>>
    /\ redemptions = 0 /\ consumed = <<>> /\ threadDocs = <<>>
    /\ testDocs = [own |-> <<>>, shared |-> <<>>]
    /\ attemptDocs = [id \in {} |-> 0] /\ cache = <<>>
    /\ pendingUpdate = <<>> /\ saveTimer = <<>> /\ writes = <<>>
    /\ starts = <<>> /\ submits = <<>> /\ timer = <<>>

\* The live effect runs again (StudentRankings.tsx:225-252): the cleanup of
\* the previous run unsubscribes, then setLoading(true) and a new onSnapshot.
RankResubscribe(s) ==
    [s EXCEPT !.loading = TRUE, !.live = s.runs + 1, !.runs = s.runs + 1]

\* useAuth() and useTenant() settle: with a user and an educator canLoad turns
\* true and both effects run; without, the live effect ends the loading.
RankAuthSettles(can) ==
    /\ mounted /\ ~st.canLoad /\ st.loading
    /\ IF can
       THEN /\ st' = RankResubscribe([st EXCEPT !.canLoad = TRUE])
            /\ ld' = [ld EXCEPT !.prev = "query"]
       ELSE /\ st' = [st EXCEPT !.loading = FALSE]
            /\ UNCHANGED ld
    /\ UNCHANGED <<mounted, hist>>
    /\ RankFrame

\* loadPrev's getDocs settles (StudentRankings.tsx:189-214); setPrevRankMap
\* changes a dependency of the live effect, which runs again.
RankPrevLoaded(ok, snap) ==
    /\ ld.prev = "query"
    /\ ld' = [ld EXCEPT !.prev = "done"]
    /\ IF mounted
       THEN st' = RankResubscribe(
                     [st EXCEPT !.prevRankMap = IF ok THEN PrevRanks(snap)
                                                ELSE <<>>])
       ELSE UNCHANGED st
    /\ UNCHANGED <<mounted, hist>>
    /\ RankFrame

\* A snapshot arrives on the live subscription: the callback runs up to
\* `await hydrateProfiles(ids)`; it closes over this run's prevRankMap.
RankSnapshot(snap) ==
    /\ st.live # 0 /\ hist.snapshots < MaxSnapshots
    /\ ld' = [ld EXCEPT !.handlers = @ \cup
                 {[run |-> st.live, top |-> RankTop(snap),
                   prevRankMap |-> st.prevRankMap, source |-> SeqRange(snap)]}]
    /\ hist' = [hist EXCEPT !.snapshots = @ + 1]
    /\ UNCHANGED <<st, mounted>>
    /\ RankFrame

\* hydrateProfiles resolves for one waiting callback (StudentRankings.tsx:
\* 275-295).
RankHydrated(h) ==
    /\ h \in ld.handlers
    /\ ld' = [ld EXCEPT !.handlers = @ \ {h}]
    /\ st' = [st EXCEPT
                !.leaderboard =
                    RankRows(h.top,
                             hydrateProfiles({h.top[k].studentId :
                                                k \in 1..Len(h.top)}),
                             h.prevRankMap),
                !.loading = FALSE]
    /\ hist' = [hist EXCEPT !.source = h.source]
    /\ UNCHANGED mounted
    /\ RankFrame

\* The listener fails (StudentRankings.tsx:301-305) and is closed.
RankSnapshotError ==
    /\ st.live # 0
    /\ st' = [st EXCEPT !.leaderboard = <<>>, !.loading = FALSE, !.live = 0]
    /\ hist' = [hist EXCEPT !.source = {}]
    /\ UNCHANGED <<ld, mounted>>
    /\ RankFrame

\* The page unmounts: both cleanups run (StudentRankings.tsx:219-221, 308).
RankUnmount ==
    /\ mounted
    /\ mounted' = FALSE
    /\ st' = [st EXCEPT !.live = 0]
    /\ UNCHANGED <<ld, hist>>
    /\ RankFrame

RankNext ==
    \/ \E can \in BOOLEAN : RankAuthSettles(can)
    \/ \E ok \in BOOLEAN, snap \in PrevSnapshots : RankPrevLoaded(ok, snap)
    \/ \E snap \in RankSnapshots : RankSnapshot(snap)
    \/ \E h \in ld.handlers : RankHydrated(h)
    \/ RankSnapshotError
    \/ RankUnmount

SpecRankings == RankInit /\ [][RankNext]_vars

(***************************************************************************)
(* StudentRankings properties                                              *)
(***************************************************************************)
\* (percentage desc, raw score desc, time taken asc): a is at least as good
\* as b.
StatedAtLeast(a, b) ==
    \/ a.percentScore > b.percentScore
    \/ a.percentScore = b.percentScore /\ a.score > b.score
    \/ a.percentScore = b.percentScore /\ a.score = b.score /\ a.time <= b.time

\* The best key among the attempts of one student in the snapshot shown.
StatedBest(sid) ==
    LET own == {RankKey(a) : a \in {x \in hist.source : x.studentId = sid}}
    IN  CHOOSE k \in own : \A other \in own : StatedAtLeast(k, other)

C24_Late ==
    \A h \in ld.handlers :
        (h.run # st.live /\ ld'.handlers = ld.handlers \ {h}) => st' = st

C24_NoUpdateAfterTeardown == [][C24_Late]_vars

(***************************************************************************)
(* StudentMessages (part_001:145-416)                                      *)
(***************************************************************************)
\* Messages the student sends and replies of the educator in one run.
MaxSends == 2
MaxReplies == 1

ThreadIds == {"t1", "t2"}

\* The Thread objects of the thread snapshot (part_001:193-204), newest first
\* (orderBy lastMessageAt desc); unreadCountEducator is not copied.
MapThreads(docs) ==
    LET ids == DOMAIN docs
        first == CHOOSE a \in ids :
                    \A b \in ids : docs[a].lastMessageAt >= docs[b].lastMessageAt
        order == <<first>> \o
                 IF ids = {first} THEN <<>>
                 ELSE <<CHOOSE b \in ids : b # first>>
    IN  [k \in 1..Len(order) |->
            [id |-> order[k],
             unreadCountStudent |-> docs[order[k]].unreadCountStudent]]

\* selectedThread (part_001:224-226).
selectedThread(s) ==
    IF s.selectedThreadId = <<>> THEN <<>>
    ELSE LET at == {k \in 1..Len(s.threads) :
                       s.threads[k].id = s.selectedThreadId[1]}
         IN  IF at = {} THEN <<>> ELSE <<s.threads[CHOOSE k \in at : TRUE]>>

\* The unreadCountEducator of sendMessageFixed's merge write (part_001:401):
\* selectedThread.unreadCountEducator + 1 when the field is there, else 1.
NextUnreadEducator(s) ==
    LET sel == selectedThread(s)
    IN  IF sel # <<>> /\ "unreadCountEducator" \in DOMAIN sel[1]
        THEN sel[1].unreadCountEducator + 1
        ELSE 1

\* The mark-as-read effect (part_001:270-278) on the component state s: the
\* threads with an updateDoc {unreadCountStudent: 0} under way.
MarkAsRead(s, marks) ==
    LET sel == selectedThread(s)
    IN  IF sel = <<>> \/ sel[1].unreadCountStudent <= 0 THEN marks
        ELSE marks \cup {sel[1].id}

\* Everything but st, ld, hist and threadDocs stays as it is.
MessageFrame ==
    UNCHANGED <<scoreVars, now, redeemVars, testDocs, attemptDocs, cache,
                mounted, pendingUpdate, saveTimer, writes, starts, submits,
                timer>>

\* Two threads of the student, one newer than the other; ld.send is the
\* sendMessageFixed call under way, ld.marks the mark-as-read writes under way.
MessageInit ==
    /\ \E us \in [ThreadIds -> 0..1], ue \in [ThreadIds -> 0..1] :
          threadDocs = [id \in ThreadIds |->
                          [unreadCountStudent |-> us[id],
                           unreadCountEducator |-> ue[id],
                           lastMessageAt |-> IF id = "t1" THEN 2 ELSE 1]]
    /\ st = [threads |-> <<>>, selectedThreadId |-> <<>>, sending |-> FALSE]
    /\ ld = [send |-> <<>>, marks |-> {}]
    /\ hist = [sends |-> 0, replies |-> 0, clock |-> 2]
    /\ mounted = TRUE
    /\ questions = <<>> /\ responses = NoResponses /\ scoreOut = <<>>
    /\ now = 0
    /\ codeDocs = <<>> /\ unlockDocs = {} /\ tabs = <<>>
    /\ redemptions = 0 /\ consumed = <<>>
    /\ testDocs = [own |-> <<>>, shared |-> <<>>]
    /\ attemptDocs = [id \in {} |-> 0] /\ cache = <<>>
    /\ pendingUpdate = <<>> /\ saveTimer = <<>> /\ writes = <<>>
    /\ starts = <<>> /\ submits = <<>> /\ timer = <<>>

\* The thread listener delivers the collection (part_001:191-211). Its closure
\* is the one of the first effect run, where selectedThreadId is null, so the
\* first thread of the list is selected; the mark-as-read effect follows.
ThreadSnapshot ==
    /\ st.threads # MapThreads(threadDocs)
    /\ LET list == MapThreads(threadDocs)
           s == [st EXCEPT !.threads = list,
                           !.selectedThreadId = <<list[1].id>>]
       IN  /\ st' = s
           /\ ld' = [ld EXCEPT !.marks = MarkAsRead(s, @)]
    /\ UNCHANGED <<threadDocs, hist>>
    /\ MessageFrame

\* A click on a thread of the list (part_001:497).
SelectThread(id) ==
    /\ st.threads # <<>> /\ st.selectedThreadId # <<id>>
    /\ LET s == [st EXCEPT !.selectedThreadId = <<id>>]
       IN  /\ st' = s
           /\ ld' = [ld EXCEPT !.marks = MarkAsRead(s, @)]
    /\ UNCHANGED <<threadDocs, hist>>
    /\ MessageFrame

\* The updateDoc of the mark-as-read effect reaches the server.
MarkApplied(id) ==
    /\ id \in ld.marks
    /\ ld' = [ld EXCEPT !.marks = @ \ {id}]
    /\ threadDocs' = [threadDocs EXCEPT ![id].unreadCountStudent = 0]
    /\ UNCHANGED <<st, hist>>
    /\ MessageFrame

\* handleSend -> sendMessageFixed up to `await addDoc` (part_001:377-392);
\* the send button is disabled while sending.
SendMessage ==
    /\ st.selectedThreadId # <<>> /\ ~st.sending /\ ld.send = <<>>
    /\ hist.sends < MaxSends
    /\ st' = [st EXCEPT !.sending = TRUE]
    /\ ld' = [ld EXCEPT !.send = <<[pc |-> "addDoc",
                                    threadId |-> st.selectedThreadId[1],
                                    unreadCountEducator |-> NextUnreadEducator(st)]>>]
    /\ hist' = [hist EXCEPT !.sends = @ + 1]
    /\ UNCHANGED threadDocs
    /\ MessageFrame

\* addDoc of the message settles (part_001:385-392): on success the merge
\* write follows, on failure the catch and finally blocks.
SendAddDoc(ok) ==
    /\ ld.send # <<>> /\ ld.send[1].pc = "addDoc"
    /\ IF ok
       THEN /\ ld' = [ld EXCEPT !.send[1].pc = "setDoc"]
            /\ UNCHANGED st
       ELSE /\ ld' = [ld EXCEPT !.send = <<>>]
            /\ st' = [st EXCEPT !.sending = FALSE]
    /\ UNCHANGED <<threadDocs, hist>>
    /\ MessageFrame

\* setDoc(..., {merge: true}) of the thread settles (part_001:395-411).
SendSetDoc(ok) ==
    /\ ld.send # <<>> /\ ld.send[1].pc = "setDoc"
    /\ ld' = [ld EXCEPT !.send = <<>>]
    /\ st' = [st EXCEPT !.sending = FALSE]
    /\ IF ok
       THEN /\ threadDocs' =
                 [threadDocs EXCEPT
                    ![ld.send[1].threadId].unreadCountEducator =
                        ld.send[1].unreadCountEducator,
                    ![ld.send[1].threadId].lastMessageAt = hist.clock + 1]
            /\ hist' = [hist EXCEPT !.clock = @ + 1]
       ELSE UNCHANGED <<threadDocs, hist>>
    /\ MessageFrame

\* The educator answers in a thread: one more message unread by the student.
EducatorReplies(id) ==
    /\ hist.replies < MaxReplies
    /\ threadDocs' = [threadDocs EXCEPT ![id].unreadCountStudent = @ + 1,
                                        ![id].lastMessageAt = hist.clock + 1]
    /\ hist' = [hist EXCEPT !.replies = @ + 1, !.clock = @ + 1]
    /\ UNCHANGED <<st, ld>>
    /\ MessageFrame

MessageNext ==
    \/ ThreadSnapshot
    \/ \E id \in ThreadIds : SelectThread(id)
    \/ \E id \in ThreadIds : MarkApplied(id)
    \/ SendMessage
    \/ \E ok \in BOOLEAN : SendAddDoc(ok)
    \/ \E ok \in BOOLEAN : SendSetDoc(ok)
    \/ \E id \in ThreadIds : EducatorReplies(id)

SpecMessages == MessageInit /\ [][MessageNext]_vars

(***************************************************************************)
(* StudentMessages properties                                              *)
(***************************************************************************)
\* A send whose thread write is stored raises unreadCountEducator by one;
\* the educator reads nothing in these runs.
C23_SendStep ==
    \A id \in ThreadIds :
        (ld.send # <<>> /\ ld.send[1].pc = "setDoc" /\ ld.send[1].threadId = id
           /\ ld'.send = <<>> /\ threadDocs'[id] # threadDocs[id]) =>
        /\ threadDocs'[id].unreadCountEducator =
               threadDocs[id].unreadCountEducator + 1
        /\ threadDocs'[id].unreadCountStudent = threadDocs[id].unreadCountStudent

\* A thread opened with unread messages gets the reset written, and the write
\* sets unreadCountStudent to 0 and leaves unreadCountEducator alone.
C23_OpenStep ==
    /\ (st'.selectedThreadId # st.selectedThreadId /\ selectedThread(st') # <<>>
          /\ selectedThread(st')[1].unreadCountStudent > 0) =>
       st'.selectedThreadId[1] \in ld'.marks
    /\ \A id \in ThreadIds :
          (id \in ld.marks /\ id \notin ld'.marks) =>
          /\ threadDocs'[id].unreadCountStudent = 0
          /\ threadDocs'[id].unreadCountEducator = threadDocs[id].unreadCountEducator

\* C23: every message a student sends raises the thread's unreadCountEducator
\* by exactly one over the stored value, so n sends without an educator read
\* raise it by n; opening a thread whose unreadCountStudent is positive resets
\* it to 0 without touching unreadCountEducator.
C23_UnreadCounters == [][C23_SendStep /\ C23_OpenStep]_vars

(***************************************************************************)
(* Submitted score against the stored responses                            *)
(***************************************************************************)
\* C26: at the moment the remote status becomes submitted, the score fields
\* written equal the score computed from the responses map stored in that same
\* remote document, for every interleaving of answers, debounced autosave
\* writes (acknowledged or failed) and submit.
C26_SubmitStep ==
    \A id \in DOMAIN attemptDocs :
        (attemptDocs[id].status # "submitted" /\ id \in DOMAIN attemptDocs'
           /\ attemptDocs'[id].status = "submitted") =>
        attemptDocs'[id].result[1].score =
            computeScoreOf(questions, attemptDocs'[id].responses)

C26_ScoreMatchesStoredResponses == [][C26_SubmitStep]_vars

(***************************************************************************)
(* Scoring: the sign of the penalty                                        *)
(***************************************************************************)
\* The score computeScore returns when question i is left unanswered and the
\* other responses are as they are.
ScoreWithout(i) ==
    computeScoreOf(questions,
                   [responses EXCEPT ![questions[i].id].answer = Null]).score

\* C27: for every question and every stored negativeMarks value, positive or
\* negative, answering it incorrectly never yields a higher score than leaving
\* it unanswered, and answering it correctly never a lower one.
C27_WrongNeverBeatsBlank ==
    scoreOut # <<>> =>
        \A i \in QIdx :
            /\ StatedWrong(i) => scoreOut[1].score <= ScoreWithout(i)
            /\ StatedCorrect(i) => scoreOut[1].score >= ScoreWithout(i)

(***************************************************************************)
(* StudentAttemptDetails, the attempt review page (part_003:54-207)        *)
(***************************************************************************)
\* Math.abs
Abs(n) == IF n < 0 THEN 0 - n ELSE n

\* mapQuestion of the review page (part_003:54-72): as the attempt flow's,
\* with the penalty stored as Math.abs(negative).
mapQuestionDetails(id, data) ==
    LET correctIndex == safeNumber(data.correctOptionIndex, 0)
        positive == safeNumber(data.positiveMarks, 4)
        negative == safeNumber(data.negativeMarks, 1)
    IN  [ id |-> id,
          type |-> IF data.type = "integer" THEN "integer" ELSE "mcq",
          correctAnswer |->
              IF data.type = "integer"
              THEN String(IF data.correctAnswer \in {Null, Undefined}
                          THEN Str(Empty) ELSE data.correctAnswer)
              ELSE String(Num(correctIndex)),
          marks |-> [correct |-> positive, incorrect |-> Abs(negative)] ]

\* isAnswered (part_003:74-76)
isAnswered(val) ==
    val # Null /\ val # Undefined /\ Trim(String(val)) # Empty

\* isCorrectAnswer (part_003:78-82)
isCorrectAnswer(q, userAnswer) ==
    IF ~isAnswered(userAnswer) THEN FALSE
    ELSE IF q.type = "integer"
    THEN Trim(String(userAnswer)) = Trim(q.correctAnswer)
    ELSE String(userAnswer) = q.correctAnswer

\* One card of the review list (part_003:201-207).
ReviewCard(q, resp) ==
    LET stored == AnswerOf(resp, q.id)
        userAnswer == IF stored \in {Null, Undefined} THEN Null ELSE stored
        answered == isAnswered(userAnswer)
        correct == isCorrectAnswer(q, userAnswer)
    IN  [answered |-> answered, correct |-> correct,
         awarded |-> IF ~answered THEN 0
                     ELSE IF correct THEN q.marks.correct
                     ELSE 0 - Abs(q.marks.incorrect)]

\* A test of up to MaxQuestions stored questions is open in the attempt flow.
ReviewInit ==
    /\ \E n \in 1..MaxQuestions : \E d \in [1..n -> QuestionDocs] :
          /\ testDocs = [own |-> <<TestDoc(1, d)>>, shared |-> <<>>]
          /\ questions = [i \in 1..n |-> mapQuestion(QuestionId(i), d[i])]
    /\ responses = buildInitResponses(questions)
    /\ scoreOut = <<>>
    /\ now = 1
    /\ codeDocs = <<>> /\ unlockDocs = {} /\ tabs = <<>>
    /\ redemptions = 0 /\ consumed = <<>> /\ threadDocs = <<>>
    /\ attemptDocs = <<>> /\ cache = <<>>
    /\ mounted = TRUE /\ st = <<>> /\ ld = <<>>
    /\ NoFlow

\* The review page loads the submitted attempt (part_003:150-163) and renders
\* its cards: the questions mapped again from the stored documents, the
\* responses as the attempt holds them.
ReviewLoad ==
    /\ scoreOut # <<>> /\ st = <<>>
    /\ LET qdocs == testDocs.own[1].questions
           qs == [i \in 1..Len(qdocs) |-> mapQuestionDetails(QuestionId(i), qdocs[i])]
       IN  st' = [questions |-> qs, responses |-> responses,
                  cards |-> [i \in 1..Len(qs) |-> ReviewCard(qs[i], responses)]]
    /\ UNCHANGED <<scoreVars, now, redeemVars, threadDocs, testDocs, attemptDocs,
                   cache, mounted, ld, flowVars>>

ReviewNext ==
    \/ \E qid \in QuestionIds, ans \in AnswerValues : ScoreSetAnswer(qid, ans)
    \/ ScoreCompute
    \/ ReviewLoad

SpecReview == ReviewInit /\ [][ReviewNext]_vars

\* C28: the per-question marks of the review page (0 unanswered, +marks.correct
\* if correct, minus the penalty if wrong) sum to the score the attempt flow
\* computed for the same questions and responses, and both pages classify
\* every response identically.
C28_ReviewSumsToScore ==
    st # <<>> =>
        LET r == scoreOut[1]
            idx == 1..Len(st.cards)
            awarded == [i \in idx |-> st.cards[i].awarded]
        IN  /\ SumOver(awarded, idx) = r.score
            /\ r.unansweredCount = Cardinality({i \in idx : ~st.cards[i].answered})
            /\ r.correctCount = Cardinality({i \in idx : st.cards[i].correct})
            /\ r.incorrectCount =
                 Cardinality({i \in idx : st.cards[i].answered /\ ~st.cards[i].correct})

\* The classification alone.
C28_SameClassification ==
    st # <<>> =>
        \A i \in 1..Len(st.cards) :
            /\ st.cards[i].answered <=> ~StatedUnanswered(i)
            /\ st.cards[i].correct <=> StatedCorrect(i)

(***************************************************************************)
(* The ways into the attempt route (StudentTestDetails.tsx, AppRoutes.tsx)  *)
(***************************************************************************)
\* Stored prices of the test: free and paid.
EntryPrices == {Num(0), Num(100)}

\* The testUnlocks document of the signed-in student for the route's test.
UnlockOfStudent ==
    [id |-> UnlockIdOf(uid, educatorId, testId), studentId |-> uid,
     educatorId |-> educatorId, testSeriesId |-> testId,
     unlockedVia |-> "accessCode", accessCode |-> <<>>, unlockedAt |-> 0, ver |-> 1]

\* test.price as the details and list pages read it (StudentTestDetails.tsx:
\* 160, 763).
PriceOf(data) == Max(0, safeNum(data.price, 0))

\* isLocked (StudentTestDetails.tsx:273-276, 765), with `unlocked` the
\* existence of the testUnlocks document (lines 208-216).
isLocked ==
    /\ PriceOf(testDocs.own[1]) > 0
    /\ UnlockSnapshot(UnlockIdOf(uid, educatorId, testId)) = <<>>

\* attemptsLeft (StudentTestDetails.tsx:161, 278-279): attemptsAllowed falls
\* back to 3, attempts are the student's submitted attempts of the test.
attemptsLeft ==
    LET used == {id \in DOMAIN attemptDocs :
                    /\ attemptDocs[id].studentId = uid
                    /\ attemptDocs[id].testId = testId
                    /\ attemptDocs[id].status = "submitted"}
    IN  Max(0, Max(1, 3) - Cardinality(used))

\* Everything the pages before the attempt route leave alone.
EntryFrame ==
    UNCHANGED <<scoreVars, now, codeDocs, unlockDocs, redemptions, consumed,
                threadDocs, testDocs, attemptDocs, cache, st, flowVars>>

\* navigate(`/student/tests/${id}/attempt`): StudentCBTAttempt mounts and its
\* load effect starts (AppRoutes.tsx:107, part_002:205).
NavigateToAttempt ==
    /\ tabs' = <<[page |-> "attempt", unlockDialogOpen |-> FALSE]>>
    /\ ld' = InitLoad
    /\ mounted' = TRUE

\* The student is on the details page, on the test list or types the attempt
\* route; the test is free or paid, unlocked for the student or not.
EntryInit ==
    /\ \E price \in EntryPrices :
          testDocs = [own |-> <<[durationMinutes |-> Num(1),
                                  questions |-> TwoQuestions, price |-> price]>>,
                      shared |-> <<>>]
    /\ unlockDocs \in {{}, {UnlockOfStudent}}
    /\ \E page \in {"details", "list", "url"} :
          tabs = <<[page |-> page, unlockDialogOpen |-> FALSE]>>
    /\ \E left \in LeftBehind : attemptDocs = left[1] /\ cache = left[2]
    /\ mounted = FALSE
    /\ st = InitState
    /\ ld = [InitLoad EXCEPT !.pc = "route"]
    /\ questions = <<>> /\ responses = NoResponses /\ scoreOut = <<>>
    /\ now = 1000
    /\ codeDocs = <<>>
    /\ redemptions = 0 /\ consumed = <<>> /\ threadDocs = <<>>
    /\ FlowInit

\* startTest of the details page (StudentTestDetails.tsx:349-360).
startTest ==
    /\ tabs[1].page = "details"
    /\ IF isLocked
       THEN /\ ~tabs[1].unlockDialogOpen
            /\ tabs' = [tabs EXCEPT ![1].unlockDialogOpen = TRUE]
            /\ UNCHANGED <<ld, mounted>>
       ELSE /\ attemptsLeft > 0
            /\ NavigateToAttempt
    /\ EntryFrame

\* onStart of a card of the test list (StudentTestDetails.tsx:985); the card
\* is handed isLocked (line 774) and offers Start for an unlocked test.
TestCardStart ==
    /\ tabs[1].page = "list"
    /\ ~isLocked
    /\ NavigateToAttempt
    /\ EntryFrame

\* The attempt route opened by its address (AppRoutes.tsx:98-107): the route
\* is wrapped in RequireRole only.
EnterAttemptRoute ==
    /\ tabs[1].page = "url"
    /\ NavigateToAttempt
    /\ EntryFrame

EntryNext ==
    \/ startTest
    \/ TestCardStart
    \/ EnterAttemptRoute
    \/ LoadGetTestDoc
    \/ LoadGetQuestions
    \/ LoadCachedAttempt
    \/ LoadQueryAttempt
    \/ StartClick
    \/ \E k \in 1..MaxEvents : StartDecide(k)
    \/ \E ok \in BOOLEAN : ResolveStartWrite(ok)

SpecEntry == EntryInit /\ [][EntryNext]_vars

\* C29: no attempt document is ever created for a test whose price is positive
\* by a student who has no testUnlocks record for it: every path to the
\* creation of an attempt is gated on the unlock.
C29_NoAttemptWithoutUnlock ==
    \A id \in DOMAIN attemptDocs :
        (\E k \in DOMAIN NewIds : NewIds[k] = id) =>
            (PriceOf(testDocs.own[1]) > 0 =>
                UnlockSnapshot(UnlockIdOf(attemptDocs[id].studentId, educatorId,
                                          attemptDocs[id].testId)) # <<>>)

(***************************************************************************)
(* StudentDashboard (part_004:261-535)                                     *)
(***************************************************************************)
\* The result fields a submitted attempt carries.
SubmittedResult ==
    <<[score |-> [score |-> 3, maxScore |-> 8, correctCount |-> 1,
                  incorrectCount |-> 1, unansweredCount |-> 0,
                  accuracy |-> Ratio(1, 2)],
       timeTakenSec |-> 30]>>

\* Attempts of the student as the attempt flow stores them: in_progress
\* (part_002:439) or submitted (part_002:578), of either test.
DashboardAttempt(test, status, created) ==
    [StoredAttempt(uid, test, educatorId, status, created, Num(1000), Num(0),
                   Unvisited)
        EXCEPT !.result = IF status = "submitted" THEN SubmittedResult ELSE <<>>]

\* The ids of docs, newest first (orderBy createdAt desc).
RECURSIVE NewestFirst(_, _)
NewestFirst(docs, ids) ==
    IF ids = {} THEN <<>>
    ELSE LET top == CHOOSE a \in ids :
                       \A b \in ids : docs[a].createdAt >= docs[b].createdAt
         IN  <<top>> \o NewestFirst(docs, ids \ {top})

\* The status mapping of the attempts snapshot (part_004:333-334).
AttemptStatus(statusRaw) ==
    IF statusRaw = "in-progress" THEN "in-progress" ELSE "submitted"

\* One row of the attempts snapshot (part_004:317-347).
AttemptRow(id, a) ==
    LET score == IF a.result = <<>> THEN 0 ELSE a.result[1].score.score
        maxScore == IF a.result = <<>> THEN 0 ELSE a.result[1].score.maxScore
    IN  [id |-> id, testId |-> a.testId,
         status |-> AttemptStatus(IF a.status = "" THEN "submitted" ELSE a.status),
         score |-> score, maxScore |-> maxScore,
         accuracyPct |-> IF a.result # <<>>
                         THEN normalizeAccuracyPercent(a.result[1].score.accuracy)
                         ELSE pct(score, maxScore),
         createdAtMs |-> a.createdAt]

\* completedAttempts and inProgressAttempt (part_004:374-375).
completedAttempts(attempts) ==
    SelectSeq(attempts, LAMBDA a : a.status = "submitted")

inProgressAttempt(attempts) ==
    LET live == SelectSeq(attempts, LAMBDA a : a.status = "in-progress")
    IN  IF live = <<>> THEN <<>> ELSE <<live[1]>>

DashboardFrame ==
    UNCHANGED <<scoreVars, now, redeemVars, threadDocs, testDocs, cache,
                mounted, ld, pendingUpdate, saveTimer, writes, starts, submits,
                timer>>

\* Up to three stored attempts; hist.snapshot is the collection as the last
\* snapshot delivered it.
DashboardInit ==
    /\ \E present \in SUBSET {"a1", "a2", "a3"} :
       \E test \in [present -> Tests], status \in [present -> {"in_progress", "submitted"}] :
          attemptDocs = [id \in present |->
                            DashboardAttempt(test[id], status[id],
                                CASE id = "a1" -> 1 [] id = "a2" -> 2 [] OTHER -> 3)]
    /\ st = [loading |-> TRUE, attempts |-> <<>>]
    /\ hist = [snapshot |-> <<>>]
    /\ ld = <<>>
    /\ mounted = TRUE
    /\ questions = <<>> /\ responses = NoResponses /\ scoreOut = <<>>
    /\ now = 0
    /\ codeDocs = <<>> /\ unlockDocs = {} /\ tabs = <<>>
    /\ redemptions = 0 /\ consumed = <<>> /\ threadDocs = <<>>
    /\ testDocs = [own |-> <<>>, shared |-> <<>>]
    /\ cache = <<>>
    /\ pendingUpdate = <<>> /\ saveTimer = <<>> /\ writes = <<>>
    /\ starts = <<>> /\ submits = <<>> /\ timer = <<>>

\* The attempts listener delivers the collection (part_004:315-351).
DashboardSnapshot ==
    /\ hist.snapshot # <<attemptDocs>>
    /\ LET order == NewestFirst(attemptDocs, DOMAIN attemptDocs)
       IN  st' = [loading |-> FALSE,
                  attempts |-> [k \in 1..Len(order) |->
                                   AttemptRow(order[k], attemptDocs[order[k]])]]
    /\ hist' = [snapshot |-> <<attemptDocs>>]
    /\ UNCHANGED attemptDocs
    /\ DashboardFrame

\* The listener fails (part_004:353-358).
DashboardError ==
    /\ st.loading
    /\ st' = [loading |-> FALSE, attempts |-> <<>>]
    /\ hist' = [snapshot |-> <<[id \in {} |-> 0]>>]
    /\ UNCHANGED attemptDocs
    /\ DashboardFrame

\* The attempt flow submits a stored attempt (part_002:577-588).
DashboardAttemptSubmitted(id) ==
    /\ id \in DOMAIN attemptDocs /\ attemptDocs[id].status = "in_progress"
    /\ attemptDocs' = [attemptDocs EXCEPT ![id].status = "submitted",
                                          ![id].result = SubmittedResult,
                                          ![id].updatedAt = @ + 1]
    /\ UNCHANGED <<st, hist>>
    /\ DashboardFrame

DashboardNext ==
    \/ DashboardSnapshot
    \/ DashboardError
    \/ \E id \in {"a1", "a2", "a3"} : DashboardAttemptSubmitted(id)

SpecDashboard == DashboardInit /\ [][DashboardNext]_vars

\* C30: on the dashboard an attempt stored with status in_progress is never
\* counted among the completed attempts and is the one offered as 'Continue
\* Test'; only submitted attempts count as completed.
C30_InProgressIsContinued ==
    hist.snapshot # <<>> =>
        LET docs == hist.snapshot[1]
            live == {id \in DOMAIN docs : docs[id].status = "in_progress"}
            done == {id \in DOMAIN docs : docs[id].status = "submitted"}
            completed == completedAttempts(st.attempts)
            offered == inProgressAttempt(st.attempts)
        IN  /\ {completed[k].id : k \in 1..Len(completed)} = done
            /\ live # {} => (offered # <<>> /\ offered[1].id \in live)
            /\ live = {} => offered = <<>>

====
